---- MODULE Spec2Model ----
(***************************************************************************)
(* Phoenyra EMS: the per-site control core.                                *)
(*                                                                         *)
(* Numbers.  Python floats are modelled by exact integers in fixed point:  *)
(*   - every quantity the source names *_kw is held in units of 0.001 kW   *)
(*     (1 W), so 80 kW is 80000;                                           *)
(*   - percentages are whole percents;                                     *)
(*   - a register scale is a rational <<num, den>> (0.1 is <<1, 10>>);     *)
(*   - strategy scores and switch_threshold are in units of 0.15, the      *)
(*     default switch_threshold;                                           *)
(*   - optimization_interval_minutes is in minutes;                        *)
(*   - times are seconds since 00:00 UTC of the day the site started.      *)
(* The inputs are chosen so that every product and quotient the code forms *)
(* is exact in these units; round() is Python's round-half-to-even.        *)
(*                                                                         *)
(* An optional value (Python None) is the empty tuple, Some(v) is <<v>>.   *)
(* A Python dict whose insertion order matters (the command set) is a      *)
(* sequence of <<key, value>> pairs.                                       *)
(***************************************************************************)
EXTENDS Integers, Sequences, FiniteSets, TLC

VARIABLES
    cfg,               \* the site configuration (immutable after construction)
    now,               \* wall clock, seconds
    signal_state,      \* PowerControlManager._signal_state
    control_decision,  \* the PowerControlDecision last returned (None once consumed)
    selection_mode,    \* StrategyManager.selection_mode
    manual_strategy,   \* StrategyManager.manual_strategy
    current_strategy_name,  \* StrategyManager.current_strategy_name
    state,             \* EmsCore.state (PlantState)
    current_plan,      \* EmsCore.current_plan
    last_optimization, \* EmsCore.last_optimization
    _live_telemetry,   \* EmsCore._live_telemetry
    _last_telemetry,   \* EmsCore._last_telemetry
    connected,         \* ModbusClient.connected
    tick,              \* position of the tick thread inside decide()
    written,           \* writes attempted by the running apply_commands
    retried,           \* history: the previous tick had a write that failed
    call,              \* the API call just made with its inputs and result
    _state_lock,       \* EmsCore._state_lock: the thread holding it, or "none"
    pending,           \* per thread: its running update, or its position in its code
    reader,            \* the asdict(state) copy a reader is taking
    _lock,             \* ModbusClient._lock: the thread holding it, or "none"
    inflight,          \* the Modbus requests on the wire, by thread
    poller,            \* position of the Modbus poller thread
    _listeners,        \* EmsCore._listeners: the subscribers whose queue is registered
    queues,            \* per subscriber: the content of its queue.Queue(maxsize=10)
    delivered,         \* history: per subscriber, the last snapshot it dequeued
    _stop,             \* EmsCore._stop (threading.Event)
    mqtt_client,       \* the MQTT client: "idle", "connecting" or "connected"
    stopper,           \* position of the thread that called stop()
    telemetry_buffer,  \* EmsCore.telemetry_buffer (deque, oldest entry first)
    _last_sim_telemetry,  \* EmsCore._last_sim_telemetry
    _telemetry_lock,   \* EmsCore._telemetry_lock: the thread holding it, or "none"
    sites,             \* MultiSiteManager.sites: the started site of each id
    app                \* create_app: what app.ems holds, and the constructor's position

pcVars   == <<signal_state, control_decision>>
smVars   == <<selection_mode, manual_strategy, current_strategy_name>>
coreVars == <<state, current_plan, last_optimization>>
liveVars == <<_live_telemetry, _last_telemetry>>
tickVars == <<tick, written, retried>>
snapVars == <<_state_lock, pending, reader>>
busVars  == <<_lock, inflight, poller>>
sseVars  == <<_listeners, queues, delivered>>
stopVars == <<_stop, mqtt_client, stopper>>
appVars  == <<telemetry_buffer, _last_sim_telemetry, _telemetry_lock, sites, app>>
extVars  == <<snapVars, busVars, sseVars, stopVars, appVars>>

vars == <<cfg, now, pcVars, smVars, coreVars, liveVars, connected, tickVars, call,
          extVars>>

None == <<>>
Some(v) == <<v>>

Abs(x) == IF x < 0 THEN -x ELSE x
Min(a, b) == IF a <= b THEN a ELSE b
Max(a, b) == IF a >= b THEN a ELSE b
Sgn(x) == IF x > 0 THEN 1 ELSE IF x < 0 THEN -1 ELSE 0

(* Mutant: truncation towards minus infinity instead of rounding. *)
PyRoundDown(n, d) == IF d < 0 THEN (-n) \div (-d) ELSE n \div d

(* Python round(n / d): nearest integer, ties to the even one. *)
PyRound(n, d) ==
    LET nn == IF d < 0 THEN -n ELSE n
        dd == Abs(d)
        q  == nn \div dd
        r  == nn % dd
    IN  IF 2 * r < dd THEN q
        ELSE IF 2 * r > dd THEN q + 1
        ELSE IF q % 2 = 0 THEN q ELSE q + 1

(* Python a & b on non-negative integers. *)
RECURSIVE BitAnd(_, _)
BitAnd(a, b) ==
    IF a = 0 \/ b = 0 THEN 0
    ELSE (a % 2) * (b % 2) + 2 * BitAnd(a \div 2, b \div 2)

(* dict[key] = value on an insertion-ordered dict. *)
DictSet(d, key, value) ==
    IF \E i \in 1..Len(d) : d[i][1] = key
    THEN [i \in 1..Len(d) |-> IF d[i][1] = key THEN <<key, value>> ELSE d[i]]
    ELSE Append(d, <<key, value>>)

DictKeys(d) == {d[i][1] : i \in 1..Len(d)}
DictGet(d, key) == d[CHOOSE i \in 1..Len(d) : d[i][1] = key][2]

(***************************************************************************)
(* Power control: PowerControlManager (app/ems/power_control.py)           *)
(***************************************************************************)

(* SignalState() as constructed; raw_values is never read by a decision.   *)
SignalState == [dso_trip |-> FALSE, safety_alarm |-> FALSE, dso_limit_pct |-> None]

(* cfg of a bool signal: [register, mask, equals]; status: register -> value *)
_extract_bool(status, c) ==
    IF c.register \notin DOMAIN status THEN FALSE
    ELSE LET int_val == status[c.register]
         IN  IF c.mask # None THEN BitAnd(int_val, c.mask[1]) # 0
             ELSE IF c.equals # None THEN int_val = c.equals[1]
             ELSE int_val # 0

(* cfg of the limit signal: [register, scale, min_pct, max_pct] *)
_extract_float(status, c) ==
    IF c.register \notin DOMAIN status THEN None
    ELSE LET scale   == IF c.scale[1] = 0 THEN <<1, 1>> ELSE c.scale
             scaled  == (status[c.register] * scale[1]) \div scale[2]
             floored == IF c.min_pct # None THEN Max(scaled, c.min_pct[1]) ELSE scaled
             capped  == IF c.max_pct # None THEN Min(floored, c.max_pct[1]) ELSE floored
         IN  Some(capped)

(* Mutant: a trip or an alarm, once latched, is never cleared. *)
ingest_status_latching(sig, signals_config, status) ==
    IF DOMAIN status = {} THEN sig
    ELSE [dso_trip |->
              IF signals_config.dso_trip # None
              THEN sig.dso_trip \/ _extract_bool(status, signals_config.dso_trip[1])
              ELSE sig.dso_trip,
          safety_alarm |->
              IF signals_config.safety_alarm # None
              THEN sig.safety_alarm
                   \/ _extract_bool(status, signals_config.safety_alarm[1])
              ELSE sig.safety_alarm,
          dso_limit_pct |->
              IF signals_config.dso_limit_pct # None
              THEN _extract_float(status, signals_config.dso_limit_pct[1])
              ELSE sig.dso_limit_pct]

ingest_status(sig, signals_config, status) ==
    IF DOMAIN status = {} THEN sig
    ELSE [dso_trip |->
              IF signals_config.dso_trip # None
              THEN _extract_bool(status, signals_config.dso_trip[1])
              ELSE sig.dso_trip,
          safety_alarm |->
              IF signals_config.safety_alarm # None
              THEN _extract_bool(status, signals_config.safety_alarm[1])
              ELSE sig.safety_alarm,
          dso_limit_pct |->
              IF signals_config.dso_limit_pct # None
              THEN _extract_float(status, signals_config.dso_limit_pct[1])
              ELSE sig.dso_limit_pct]

(* Mutant: the configured max_power_kw is ignored. *)
_determine_max_power_kw_unconfigured(pc, constraints, requested_power_kw) ==
    LET max_kw == Max(Max(Abs(constraints.power_discharge_max_kw),
                          Abs(constraints.power_charge_max_kw)),
                      Abs(requested_power_kw))
    IN  IF max_kw > 0 THEN Some(max_kw) ELSE None

(* None when no maximum can be determined. *)
_determine_max_power_kw(pc, constraints, requested_power_kw) ==
    IF pc.max_power_kw # None /\ pc.max_power_kw # Some(0)
    THEN Some(Abs(pc.max_power_kw[1]))
    ELSE LET discharge == Abs(constraints.power_discharge_max_kw)
             charge    == Abs(constraints.power_charge_max_kw)
             max_kw    == Max(Max(discharge, charge), Abs(requested_power_kw))
         IN  IF max_kw > 0 THEN Some(max_kw) ELSE None

(* Mutant: the limit replaces the value instead of capping it. *)
_apply_limit_uncapped(value_kw, limit_kw) ==
    IF value_kw >= 0 THEN Abs(limit_kw) ELSE -Abs(limit_kw)

_apply_limit(value_kw, limit_kw) ==
    IF value_kw >= 0 THEN Min(value_kw, Abs(limit_kw))
    ELSE -Min(Abs(value_kw), Abs(limit_kw))

WriteScale(w) == IF w.scale[1] = 0 THEN <<1, 1>> ELSE w.scale

_prepare_commands(write_config, effective_kw, shutdown, signals) ==
    LET remote == write_config.remote_enable
        c1 == IF remote # None /\ remote[1].register # ""
              THEN DictSet(<<>>, remote[1].register,
                           IF shutdown THEN remote[1].off ELSE remote[1].on)
              ELSE <<>>
        set_w == write_config.active_power_set_w
        c2 == IF set_w # None /\ set_w[1].register # ""
              THEN DictSet(c1, set_w[1].register,
                           PyRound(effective_kw * WriteScale(set_w[1])[2],
                                   WriteScale(set_w[1])[1]))
              ELSE c1
        limit_pct == write_config.active_power_limit_pct
        c3 == IF limit_pct # None /\ limit_pct[1].register # ""
              THEN DictSet(c2, limit_pct[1].register,
                           IF signals.dso_limit_pct # None /\ ~shutdown
                           THEN PyRound(signals.dso_limit_pct[1] * WriteScale(limit_pct[1])[2],
                                        WriteScale(limit_pct[1])[1])
                           ELSE 0)
              ELSE c2
    IN  c3

(* Mutant: a disabled manager that still obeys the shutdown signals. *)
disabled_decision_obeying_signals(signals, requested_power_kw) ==
    [requested_power_kw |-> requested_power_kw,
     effective_power_kw |-> IF signals.dso_trip \/ signals.safety_alarm THEN 0
                            ELSE requested_power_kw,
     shutdown |-> signals.dso_trip \/ signals.safety_alarm,
     dso_trip |-> signals.dso_trip,
     safety_alarm |-> signals.safety_alarm,
     dso_limit_pct |-> signals.dso_limit_pct,
     limit_kw |-> None,
     reason |-> "power_control_disabled",
     commands |-> <<>>]

(* The transparent decision of a disabled manager. *)
disabled_decision(signals, requested_power_kw) ==
    [requested_power_kw |-> requested_power_kw,
     effective_power_kw |-> requested_power_kw,
     shutdown |-> FALSE,
     dso_trip |-> signals.dso_trip,
     safety_alarm |-> signals.safety_alarm,
     dso_limit_pct |-> signals.dso_limit_pct,
     limit_kw |-> None,
     reason |-> "power_control_disabled",
     commands |-> <<>>]

(* Mutant: the safety alarm tested before the DSO trip. *)
shutdown_reason_alarm_first(signals) ==
    IF signals.safety_alarm THEN "safety_alarm"
    ELSE IF signals.dso_trip THEN "dso_trip"
    ELSE ""

(* The if/elif chain over the shutdown signals: the reason of a shutdown,  *)
(* "" when neither signal is set.                                          *)
shutdown_reason(signals) ==
    IF signals.dso_trip THEN "dso_trip"
    ELSE IF signals.safety_alarm THEN "safety_alarm"
    ELSE ""

(* limits["dso_limit_pct"]: None when no DSO limit applies. *)
dso_limit_kw(signals, max_kw) ==
    IF signals.dso_limit_pct # None /\ max_kw # None
    THEN Some(Max(0, (max_kw[1] * signals.dso_limit_pct[1]) \div 100))
    ELSE None

compute_decision(pc, signals, requested_power_kw, constraints) ==
    IF ~pc.enabled THEN disabled_decision(signals, requested_power_kw)
    ELSE
    LET max_kw   == _determine_max_power_kw(pc, constraints, requested_power_kw)
        stop     == shutdown_reason(signals)
        shutdown == stop # ""
        limit_kw == IF shutdown THEN None ELSE dso_limit_kw(signals, max_kw)
        effective_kw == IF shutdown THEN 0
                        ELSE IF limit_kw # None
                        THEN _apply_limit(requested_power_kw, limit_kw[1])
                        ELSE requested_power_kw
        reason == IF shutdown THEN stop
                  ELSE IF limit_kw # None THEN "dso_limit_pct"
                  ELSE "plan"
    IN  [requested_power_kw |-> requested_power_kw,
         effective_power_kw |-> effective_kw,
         shutdown |-> shutdown,
         dso_trip |-> signals.dso_trip,
         safety_alarm |-> signals.safety_alarm,
         dso_limit_pct |-> signals.dso_limit_pct,
         limit_kw |-> limit_kw,
         reason |-> reason,
         commands |-> _prepare_commands(pc.writes, effective_kw, shutdown, signals)]

(* PowerControlDecision.active_power_limit_w: limit_kw * 1000, i.e. the    *)
(* same number of watts in this fixed point.                               *)
active_power_limit_w(decision) == decision.limit_kw

(***************************************************************************)
(* Feed-in limitation: FeedinLimitationManager (app/ems/feedin_limitation) *)
(* A parsed rule is <<start, end, limit_pct>>, start and end in seconds of *)
(* the day.  No module of the repository constructs this manager.          *)
(***************************************************************************)

TimeOfDay(t) == t % 86400

(* Mutant: the end of a window belongs to it. *)
_time_in_range_closed(check_time, start_time, end_time) ==
    IF start_time <= end_time
    THEN start_time <= check_time /\ check_time <= end_time
    ELSE check_time >= start_time \/ check_time <= end_time

_time_in_range(check_time, start_time, end_time) ==
    IF start_time <= end_time
    THEN start_time <= check_time /\ check_time < end_time
    ELSE check_time >= start_time \/ check_time < end_time

get_current_limit_pct(f, current_time) ==
    IF ~f.enabled \/ f.mode = "off" THEN 100
    ELSE IF f.mode = "fixed" THEN Max(0, Min(100, f.fixed_limit_pct))
    ELSE IF f.mode = "dynamic"
    THEN LET hits == {i \in 1..Len(f.rules) :
                        _time_in_range(TimeOfDay(current_time), f.rules[i][1], f.rules[i][2])}
         IN  IF hits = {} THEN 100
             ELSE LET first == CHOOSE i \in hits : \A j \in hits : i <= j
                  IN  Max(0, Min(100, f.rules[first][3]))
    ELSE 100

(* schedule: sequence of <<ts, power_kw>>; pv_forecast: sequence of <<ts, pv_kw>> *)
apply_limit_to_schedule(f, schedule, pv_forecast) ==
    IF ~f.enabled \/ f.mode = "off" THEN schedule
    ELSE [i \in 1..Len(schedule) |->
            LET ts        == schedule[i][1]
                power_kw  == schedule[i][2]
                limit_pct == get_current_limit_pct(f, ts)
                pv_idx    == {j \in 1..Len(pv_forecast) : pv_forecast[j][1] = ts}
            IN  IF power_kw >= 0 THEN <<ts, power_kw>>
                ELSE IF f.pv_forecast_integration /\ pv_idx # {}
                THEN LET last == CHOOSE j \in pv_idx : \A k \in pv_idx : k <= j
                     IN  <<ts, Max(power_kw, -((pv_forecast[last][2] * limit_pct) \div 100))>>
                ELSE <<ts, (power_kw * limit_pct) \div 100>>]

(***************************************************************************)
(* Strategy selection: StrategyManager (app/ems/strategy_manager.py)       *)
(* A score vector is a function from the registered names to scores, as    *)
(* evaluate_all_strategies returns one entry per registered strategy.      *)
(* The manager's fields travel as a record sm = [selection_mode,           *)
(* manual_strategy, current_strategy_name].                                *)
(***************************************************************************)

(* self.strategies, in insertion order *)
Strategies == <<"arbitrage", "peak_shaving", "self_consumption", "load_balancing">>

StrategyNames == {Strategies[i] : i \in 1..Len(Strategies)}

(* scores.get(name, 0.0) *)
ScoreOf(scores, name) == IF name \in DOMAIN scores THEN scores[name] ELSE 0

(* sorted(scores.items(), key = score, reverse = True)[0]: the sort is     *)
(* stable, so the first of the highest-scored names in insertion order.    *)
best_strategy(scores) ==
    LET i == CHOOSE i \in 1..Len(Strategies) :
                 \A j \in 1..Len(Strategies) :
                     \/ scores[Strategies[j]] < scores[Strategies[i]]
                     \/ scores[Strategies[j]] = scores[Strategies[i]] /\ i <= j
    IN  Strategies[i]

(* Mutant: no hysteresis, the current strategy is kept only when it scores *)
(* strictly better than the candidate.                                     *)
keep_current_if_better(current, candidate, scores, switch_threshold) ==
    /\ current # None
    /\ current[1] # candidate
    /\ ScoreOf(scores, candidate) - ScoreOf(scores, current[1]) < 0

(* The hysteresis test, the same on the learned and on the score path. *)
keep_current(current, candidate, scores, switch_threshold) ==
    /\ current # None
    /\ current[1] # candidate
    /\ ScoreOf(scores, candidate) - ScoreOf(scores, current[1]) < switch_threshold

(* ai_selected: Some(name) when a trained selector answered, None when     *)
(* there is none or it raised.  Result: the name returned and the new      *)
(* current_strategy_name.                                                  *)
select_strategy(sm, switch_threshold, scores, ai_selected) ==
    IF sm.selection_mode = "manual"
    THEN [returned |-> sm.manual_strategy,
          current_strategy_name |-> Some(sm.manual_strategy)]
    ELSE LET candidate == IF ai_selected # None THEN ai_selected[1]
                          ELSE best_strategy(scores)
         IN  IF keep_current(sm.current_strategy_name, candidate, scores, switch_threshold)
             THEN [returned |-> sm.current_strategy_name[1],
                   current_strategy_name |-> sm.current_strategy_name]
             ELSE [returned |-> candidate, current_strategy_name |-> Some(candidate)]

(* Mutant: the name is not checked against the registered strategies. *)
set_manual_strategy_unchecked(sm, strategy_name) ==
    [ok |-> TRUE,
     sm |-> [selection_mode |-> "manual", manual_strategy |-> strategy_name,
             current_strategy_name |-> Some(strategy_name)]]

set_manual_strategy(sm, strategy_name) ==
    IF strategy_name \notin StrategyNames THEN [ok |-> FALSE, sm |-> sm]
    ELSE [ok |-> TRUE,
          sm |-> [selection_mode |-> "manual", manual_strategy |-> strategy_name,
                  current_strategy_name |-> Some(strategy_name)]]

set_auto_mode(sm) == [sm EXCEPT !.selection_mode = "auto"]

(***************************************************************************)
(* Site controller: EmsCore (app/ems/controller.py)                        *)
(***************************************************************************)

(* PlantState() as constructed; power in W, soc in percent. *)
PlantState ==
    [soc |-> 55, p_pv |-> 0, p_load |-> 5000, p_grid |-> 0, p_bess |-> 0,
     telemetry_source |-> "simulation",
     setpoint_kw |-> 0, active_power_limit_w |-> None, power_limit_reason |-> None,
     remote_shutdown_requested |-> FALSE,
     active_strategy |-> "arbitrage", optimization_status |-> "pending",
     dso_trip |-> FALSE, safety_alarm |-> FALSE, dso_limit_pct |-> None]

(* Mutant: a cycle is due at every tick. *)
_needs_optimization_always(t, last, optimization_interval_minutes) == TRUE

_needs_optimization(t, last, optimization_interval_minutes) ==
    IF last = None THEN TRUE
    ELSE t - last[1] >= 60 * optimization_interval_minutes

(* BaseStrategy.name of each registered strategy *)
StrategyTitle(name) ==
    CASE name = "arbitrage" -> "Arbitrage"
      [] name = "peak_shaving" -> "Peak Shaving"
      [] name = "self_consumption" -> "Self Consumption"
      [] name = "load_balancing" -> "Load Balancing"

(* optimized: Some(schedule) when the strategy's optimizer returned, None  *)
(* when it raised.  An unregistered name falls back to arbitrage.          *)
optimize_with_strategy(strategy_name, optimized) ==
    LET used == IF strategy_name \in StrategyNames THEN strategy_name ELSE "arbitrage"
    IN  IF optimized # None
        THEN [schedule |-> optimized[1], strategy_name |-> StrategyTitle(used)]
        ELSE [schedule |-> <<>>, strategy_name |-> used]

(* LPOptimizer.optimize_arbitrage as the strategy's optimize uses it: lp is *)
(* the schedule of the linear program, None when solving raised; fallback  *)
(* is the schedule of the heuristic, None when that raised too.  Result:   *)
(* Some(schedule), or None when the call raised.                           *)
optimize_arbitrage(lp, fallback) == IF lp # None THEN lp ELSE fallback

(* One optimization cycle at time t.  forecast is FALSE when fetching the  *)
(* forecast raised.  Result: the fields the cycle assigns and the name     *)
(* select_strategy returned (None when it was not called).                 *)
_run_optimization(st, plan, last, sm, switch_threshold, t, forecast, scores, ai_selected, optimized) ==
    IF ~forecast
    THEN [state |-> [st EXCEPT !.optimization_status = "failed"],
          current_plan |-> plan, last_optimization |-> last, sm |-> sm,
          selected |-> None]
    ELSE LET sel == select_strategy(sm, switch_threshold, scores, ai_selected)
         IN  [state |-> [st EXCEPT !.active_strategy = sel.returned,
                                   !.optimization_status = "success"],
              current_plan |-> Some(optimize_with_strategy(sel.returned, optimized)),
              last_optimization |-> Some(t),
              sm |-> [sm EXCEPT !.current_strategy_name = sel.current_strategy_name],
              selected |-> Some(sel.returned)]

(* Mutant: of two equally near entries the later one in the list wins. *)
_get_setpoint_from_plan_last(plan, t) ==
    IF plan = None THEN 0
    ELSE IF plan[1].schedule = <<>> THEN 0
    ELSE LET schedule == plan[1].schedule
             diff(i)  == Abs(schedule[i][1] - t)
             closest  == CHOOSE i \in 1..Len(schedule) :
                             \A j \in 1..Len(schedule) :
                                 diff(j) > diff(i) \/ (diff(j) = diff(i) /\ i >= j)
         IN  schedule[closest][2]

(* The plan entry nearest to t, the first one on a tie; 0 without a plan. *)
_get_setpoint_from_plan(plan, t) ==
    IF plan = None THEN 0
    ELSE IF plan[1].schedule = <<>> THEN 0
    ELSE LET schedule == plan[1].schedule
             diff(i)  == Abs(schedule[i][1] - t)
             closest  == CHOOSE i \in 1..Len(schedule) :
                             \A j \in 1..Len(schedule) :
                                 diff(j) > diff(i) \/ (diff(j) = diff(i) /\ i <= j)
         IN  schedule[closest][2]

(* seconds after which live telemetry counts as stale *)
StaleAfter == 120

(* Mutant: staleness found one second late. *)
telemetry_stale_late(live, last, t) ==
    IF live /\ last # None THEN t - last[1] > StaleAfter + 1 ELSE FALSE

telemetry_stale(live, last, t) ==
    IF live /\ last # None THEN t - last[1] > StaleAfter ELSE FALSE

(* Mutant: the shutdown flag taken from the latched signals of the Plant   *)
(* State instead of the decision.                                          *)
apply_decision_from_signals(st, decision, live) ==
    LET s1 == [st EXCEPT !.setpoint_kw = decision.effective_power_kw,
                         !.remote_shutdown_requested = st.dso_trip \/ st.safety_alarm,
                         !.active_power_limit_w = active_power_limit_w(decision),
                         !.power_limit_reason = Some(decision.reason),
                         !.dso_limit_pct = IF decision.dso_limit_pct # None
                                           THEN decision.dso_limit_pct ELSE @]
    IN  IF live THEN s1
        ELSE [s1 EXCEPT !.telemetry_source = "simulation",
                        !.p_bess = s1.setpoint_kw,
                        !.p_grid = s1.p_load - s1.p_pv - s1.setpoint_kw]

(* Mutant: the BESS reaction is simulated whether or not telemetry is live. *)
apply_decision_always_simulated(st, decision, live) ==
    LET s1 == [st EXCEPT !.setpoint_kw = decision.effective_power_kw,
                         !.remote_shutdown_requested = decision.shutdown,
                         !.active_power_limit_w = active_power_limit_w(decision),
                         !.power_limit_reason = Some(decision.reason),
                         !.dso_limit_pct = IF decision.dso_limit_pct # None
                                           THEN decision.dso_limit_pct ELSE @]
    IN  [s1 EXCEPT !.telemetry_source = IF live THEN @ ELSE "simulation",
                   !.p_bess = s1.setpoint_kw,
                   !.p_grid = s1.p_load - s1.p_pv - s1.setpoint_kw]

(* decide(), under the state lock: the decision is copied into the Plant   *)
(* State, and the BESS reaction is simulated when telemetry is not live.   *)
apply_decision(st, decision, live) ==
    LET s1 == [st EXCEPT !.setpoint_kw = decision.effective_power_kw,
                         !.remote_shutdown_requested = decision.shutdown,
                         !.active_power_limit_w = active_power_limit_w(decision),
                         !.power_limit_reason = Some(decision.reason),
                         !.dso_limit_pct = IF decision.dso_limit_pct # None
                                           THEN decision.dso_limit_pct ELSE @]
    IN  IF live THEN s1
        ELSE [s1 EXCEPT !.telemetry_source = "simulation",
                        !.p_bess = s1.setpoint_kw,
                        !.p_grid = s1.p_load - s1.p_pv - s1.setpoint_kw]

(* _handle_modbus_status under the state lock; signals is what             *)
(* ingest_status returned for the same status.                             *)
_handle_modbus_status(st, status, signals) ==
    [st EXCEPT !.telemetry_source = "modbus",
               !.soc = IF "soc_percent" \in DOMAIN status THEN status.soc_percent ELSE @,
               !.p_bess = IF "power_kw" \in DOMAIN status THEN status.power_kw ELSE @,
               !.dso_trip = signals.dso_trip,
               !.safety_alarm = signals.safety_alarm,
               !.dso_limit_pct = signals.dso_limit_pct]

(* Python a or b on optional numbers: a unless it is None or 0 *)
PyOr(a, b) == IF a # None /\ a # Some(0) THEN a ELSE b

(* a payload value that is not a number, such as the text "n/a": a pair,   *)
(* where a number v is <<v>> and an absent key <<>>                        *)
Text == <<0, 0>>

(* as_float of the MQTT handler: None for an absent value and for one that *)
(* float() cannot convert                                                  *)
as_float(value) == IF Len(value) = 1 THEN value ELSE None

(* Mutant: the MQTT handler leaves telemetry_source alone. *)
_handle_mqtt_telemetry_keeps_source(st, payload) ==
    LET soc        == PyOr(payload.soc, payload.sys_soc)
        bat_power  == PyOr(payload.bat_p, payload.sys_bat_p)
    IN  [st EXCEPT !.soc = IF soc # None THEN soc[1] ELSE @,
                   !.p_bess = IF bat_power # None THEN bat_power[1] ELSE @]

(* _handle_mqtt_telemetry under the state lock; the payload carries watts, *)
(* which is the unit of the powers of the Plant State here; every key is   *)
(* Some(value), Text, or None when absent.                                 *)
_handle_mqtt_telemetry(st, payload) ==
    LET soc        == as_float(PyOr(payload.soc, payload.sys_soc))
        bat_power  == as_float(PyOr(payload.bat_p, payload.sys_bat_p))
        pv_power   == as_float(payload.sys_pv_p)
        load_power == as_float(payload.sys_load_p)
        grid_power == as_float(PyOr(payload.sys_grid_p, payload.grid_on_p))
    IN  [st EXCEPT !.telemetry_source = "mqtt",
                   !.soc = IF soc # None THEN soc[1] ELSE @,
                   !.p_bess = IF bat_power # None THEN bat_power[1] ELSE @,
                   !.p_pv = IF pv_power # None THEN pv_power[1] ELSE @,
                   !.p_load = IF load_power # None THEN load_power[1] ELSE @,
                   !.p_grid = IF grid_power # None THEN grid_power[1] ELSE @]

(* apply_commands before its loop: the commands it is going to write, none *)
(* unless auto_write is on and a client exists and is connected.           *)
apply_commands(pc, has_client, is_connected, decision) ==
    IF ~pc.auto_write THEN <<>>
    ELSE IF ~has_client \/ ~is_connected THEN <<>>
    ELSE decision.commands

(* Mutant: an exception raised by a write leaves the loop. *)
after_write_raise_aborts(done, commands, outcome) ==
    IF outcome = "raised" \/ done = Len(commands) THEN "broadcast" ELSE "write"

(* Where the tick thread is after the write of command number `done`: the  *)
(* loop goes on to the next command whatever the outcome was.              *)
after_write(done, commands, outcome) ==
    IF done = Len(commands) THEN "broadcast" ELSE "write"

(* write_register as apply_commands sees it: it returns False without a    *)
(* connection; with one it returns True or False, or raises.               *)
WriteOutcomes(is_connected) ==
    IF is_connected THEN {"ok", "failed", "raised"} ELSE {"failed"}

(***************************************************************************)
(* Configurations                                                          *)
(***************************************************************************)

SignalsPlain ==
    [dso_trip      |-> Some([register |-> "dso_status", mask |-> Some(1), equals |-> None]),
     safety_alarm  |-> Some([register |-> "alarm_word", mask |-> None, equals |-> None]),
     dso_limit_pct |-> Some([register |-> "dso_limit", scale |-> <<1, 1>>,
                             min_pct |-> None, max_pct |-> None])]

SignalsClamped ==
    [dso_trip      |-> Some([register |-> "dso_status", mask |-> None, equals |-> Some(1)]),
     safety_alarm  |-> None,
     dso_limit_pct |-> Some([register |-> "dso_limit", scale |-> <<1, 1>>,
                             min_pct |-> Some(0), max_pct |-> Some(100)])]

WritesNone ==
    [remote_enable |-> None, active_power_set_w |-> None, active_power_limit_pct |-> None]

WritesAll ==
    [remote_enable          |-> Some([register |-> "remote_enable", on |-> 1, off |-> 0]),
     active_power_set_w     |-> Some([register |-> "active_power_set_w", scale |-> <<1, 1>>]),
     active_power_limit_pct |-> Some([register |-> "active_power_limit_pct", scale |-> <<1, 1>>])]

(* a setpoint register in units of 3 kW, a limit register in 0.1 %, and an  *)
(* inverted enable register                                                *)
WritesScaled ==
    [remote_enable          |-> Some([register |-> "remote_enable", on |-> 0, off |-> 2]),
     active_power_set_w     |-> Some([register |-> "active_power_set_w", scale |-> <<8000, 1>>]),
     active_power_limit_pct |-> Some([register |-> "active_power_limit_pct", scale |-> <<1, 10>>])]

FeedinOff ==
    [enabled |-> FALSE, mode |-> "off", fixed_limit_pct |-> 70, rules |-> <<>>,
     pv_forecast_integration |-> FALSE]

FeedinFixed ==
    [enabled |-> TRUE, mode |-> "fixed", fixed_limit_pct |-> 70, rules |-> <<>>,
     pv_forecast_integration |-> FALSE]

(* one rule "22:00-06:00" with 30 % *)
FeedinDynamic ==
    [enabled |-> TRUE, mode |-> "dynamic", fixed_limit_pct |-> 70,
     rules |-> << <<22 * 3600, 6 * 3600, 30>> >>,
     pv_forecast_integration |-> FALSE]

Constraints(charge, discharge) ==
    [power_charge_max_kw |-> charge, power_discharge_max_kw |-> discharge]

StrategiesConfig(selection_mode_, manual_strategy_, switch_threshold, ai_trained) ==
    [selection_mode |-> selection_mode_, manual_strategy |-> manual_strategy_,
     switch_threshold |-> switch_threshold, ai_trained |-> ai_trained]

(* the defaults: auto mode, threshold 0.15, no learned selector, a cycle   *)
(* every 15 minutes, a tick every 2 s, no Modbus and no MQTT integration   *)
SiteConfig(enabled, max_power_kw, auto_write, signals, writes, constraints, feedin) ==
    [power_control |-> [enabled |-> enabled, max_power_kw |-> max_power_kw,
                        auto_write |-> auto_write, signals |-> signals, writes |-> writes],
     constraints |-> constraints,
     feedin_limitation |-> feedin,
     strategies |-> StrategiesConfig("auto", "arbitrage", 1, FALSE),
     ems |-> [optimization_interval_minutes |-> 15, timestep_s |-> 2],
     modbus |-> [enabled |-> FALSE, poll_interval_s |-> Some(16)],
     mqtt |-> [enabled |-> FALSE]]

(* Configurations of the power-control checks: every combination of        *)
(* enabled, max_power_kw (unset, 100 kW, 0, -200 kW) and battery limits,   *)
(* the other write maps, the clamped signal map and the feed-in modes.     *)
PCConfigs ==
    {SiteConfig(e, m, FALSE, SignalsPlain, WritesAll, c, FeedinOff) :
        e \in BOOLEAN,
        m \in {None, Some(100000), Some(0), Some(-200000)},
        c \in {Constraints(100000, 100000), Constraints(30000, 50000), Constraints(0, 0)}}
    \cup
    {SiteConfig(e, None, FALSE, SignalsPlain, w, Constraints(100000, 100000), FeedinOff) :
        e \in BOOLEAN, w \in {WritesNone, WritesScaled}}
    \cup
    {SiteConfig(TRUE, None, FALSE, s, WritesAll, Constraints(100000, 100000), f) :
        s \in {SignalsPlain, SignalsClamped},
        f \in {FeedinOff, FeedinFixed, FeedinDynamic}}

(* 02:00 and 12:00 UTC *)
PCTimes == {2 * 3600, 12 * 3600}

(* Register values a Modbus status sample can carry. *)
LimitValues == {-10, 0, 25, 50, 100, 150}

StatusSamples ==
    {<<>>}
    \cup {[dso_status |-> a, alarm_word |-> b] : a \in 0..1, b \in 0..1}
    \cup {[dso_status |-> a, alarm_word |-> b, dso_limit |-> p] :
            a \in 0..1, b \in 0..1, p \in LimitValues}

MaxReqSteps == 5

(* requested setpoints, in steps of 20 kW *)
RequestedValues == {k * 20000 : k \in -MaxReqSteps..MaxReqSteps}

(***************************************************************************)
(* SpecPC: the power-control manager on its own.  Signals arrive through   *)
(* ingest_status; compute_decision is applied to every requested value.    *)
(***************************************************************************)

NoCall == [op |-> "none"]

(* the threads that assign fields of the Plant State *)
Writers == {"tick", "mqtt"}

(* no update is running: nothing assigned yet, nothing left to assign *)
NoUpdate == [done |-> <<>>, todo |-> <<>>]
NoUpdates == [w \in Writers |-> NoUpdate]

(* no snapshot is being taken *)
NoRead == [by |-> "none"]

(* the web clients that can hold an event stream *)
Subscribers == {"a", "b"}

(* a client that has not asked for the stream: nothing dequeued, generator *)
(* not closed                                                              *)
NotSubscribed == [last |-> None, closed |-> FALSE]

(* create_app before it has built app.ems *)
NoApp == [ems |-> "none", at |-> 0]

(* The state EmsCore.__init__ leaves behind. *)
Constructed ==
    /\ signal_state = SignalState
    /\ control_decision = None
    /\ selection_mode = cfg.strategies.selection_mode
    /\ manual_strategy = cfg.strategies.manual_strategy
    /\ current_strategy_name = None
    /\ state = PlantState
    /\ current_plan = None
    /\ last_optimization = None
    /\ _live_telemetry = FALSE
    /\ _last_telemetry = None
    /\ connected = FALSE
    /\ tick = "decide"
    /\ written = <<>>
    /\ retried = FALSE
    /\ call = NoCall
    /\ _state_lock = "none"
    /\ pending = NoUpdates
    /\ reader = NoRead
    /\ _lock = "none"
    /\ inflight = {}
    /\ poller = "idle"
    /\ _listeners = <<>>
    /\ queues = [s \in Subscribers |-> <<>>]
    /\ delivered = [s \in Subscribers |-> NotSubscribed]
    /\ _stop = FALSE
    /\ mqtt_client = "idle"
    /\ stopper = "idle"
    /\ telemetry_buffer = <<>>
    /\ _last_sim_telemetry = None
    /\ _telemetry_lock = "none"
    /\ sites = {}
    /\ app = NoApp

InitPC ==
    /\ cfg \in PCConfigs
    /\ now \in PCTimes
    /\ Constructed

IngestStatus ==
    \E status \in StatusSamples :
        /\ signal_state' = ingest_status(signal_state, cfg.power_control.signals, status)
        /\ control_decision' = None
        /\ UNCHANGED extVars
        /\ UNCHANGED <<cfg, now, smVars, coreVars, liveVars, connected, tickVars, call>>

ComputeDecision ==
    \E requested \in RequestedValues :
        /\ control_decision' =
               Some(compute_decision(cfg.power_control, signal_state, requested,
                                     cfg.constraints))
        /\ UNCHANGED extVars
        /\ UNCHANGED <<cfg, now, signal_state, smVars, coreVars, liveVars, connected,
                       tickVars, call>>

NextPC == IngestStatus \/ ComputeDecision

SpecPC == InitPC /\ [][NextPC]_vars

(***************************************************************************)
(* Claims about the power-control manager (SpecPC)                         *)
(***************************************************************************)

HasDecision == control_decision # None
Decision == control_decision[1]
PC == cfg.power_control
PmaxKw == Max(cfg.constraints.power_charge_max_kw, cfg.constraints.power_discharge_max_kw)

(* C1: with power control enabled, a latched DSO trip yields shutdown,     *)
(* effective 0 and reason dso_trip whatever the safety alarm and the DSO   *)
(* limit are; without a trip a latched safety alarm yields shutdown,       *)
(* effective 0 and reason safety_alarm whatever the DSO limit is.          *)
C1_ShutdownPrecedence ==
    (HasDecision /\ PC.enabled) =>
        /\ signal_state.dso_trip =>
              /\ Decision.shutdown
              /\ Decision.effective_power_kw = 0
              /\ Decision.reason = "dso_trip"
        /\ (~signal_state.dso_trip /\ signal_state.safety_alarm) =>
              /\ Decision.shutdown
              /\ Decision.effective_power_kw = 0
              /\ Decision.reason = "safety_alarm"

(* a decision for a non-zero request with trip, alarm and limit all latched *)
C1_Witness ==
    /\ HasDecision /\ PC.enabled
    /\ signal_state.dso_trip /\ signal_state.safety_alarm
    /\ signal_state.dso_limit_pct # None
    /\ Decision.requested_power_kw # 0
    /\ Decision.reason = "dso_trip"

(* The maximum the DSO percentage refers to, as the code determines it:    *)
(* |max_power_kw| when configured and non-zero, else the largest of the    *)
(* battery limits and |requested|.                                         *)
C2_MaxPowerKw ==
    IF PC.max_power_kw # None /\ PC.max_power_kw[1] # 0
    THEN Abs(PC.max_power_kw[1])
    ELSE Max(Max(Abs(cfg.constraints.power_discharge_max_kw),
                 Abs(cfg.constraints.power_charge_max_kw)),
             Abs(Decision.requested_power_kw))

C2_Case ==
    /\ HasDecision /\ PC.enabled
    /\ ~signal_state.dso_trip /\ ~signal_state.safety_alarm
    /\ signal_state.dso_limit_pct # None

(* C2 as stated: limit_kw = max_power_kw * p / 100 with max_power_kw the   *)
(* configured value if set, else max(p_discharge_max, p_charge_max,        *)
(* |requested|); effective = sgn(requested) * min(|requested|, limit_kw),  *)
(* shutdown false, reason dso_limit_pct.                                   *)
C2_AsStated ==
    C2_Case =>
        LET p        == signal_state.dso_limit_pct[1]
            req      == Decision.requested_power_kw
            max_kw   == IF PC.max_power_kw # None THEN PC.max_power_kw[1]
                        ELSE Max(Max(cfg.constraints.power_discharge_max_kw,
                                     cfg.constraints.power_charge_max_kw), Abs(req))
            limit_kw == (max_kw * p) \div 100
        IN  /\ Decision.limit_kw = Some(limit_kw)
            /\ Decision.effective_power_kw = Sgn(req) * Min(Abs(req), limit_kw)
            /\ Abs(Decision.effective_power_kw) <= limit_kw
            /\ ~Decision.shutdown
            /\ Decision.reason = "dso_limit_pct"

(* C2 (amended): in the case of C2, with max_power_kw the absolute value   *)
(* of the configured max_power_kw if that is set and non-zero and else     *)
(* max(p_discharge_max, p_charge_max, |requested|): if max_power_kw > 0    *)
(* then limit_kw = max(0, max_power_kw * p / 100), effective =             *)
(* sgn(requested) * min(|requested|, limit_kw), shutdown is false and the  *)
(* reason is dso_limit_pct; if max_power_kw = 0 no limit is applied        *)
(* (effective = requested, no limit_kw, reason plan).                      *)
C2_DsoLimit ==
    C2_Case =>
        LET p        == signal_state.dso_limit_pct[1]
            req      == Decision.requested_power_kw
            limit_kw == Max(0, (C2_MaxPowerKw * p) \div 100)
        IN  /\ ~Decision.shutdown
            /\ C2_MaxPowerKw > 0 =>
                  /\ Decision.limit_kw = Some(limit_kw)
                  /\ Decision.effective_power_kw = Sgn(req) * Min(Abs(req), limit_kw)
                  /\ Abs(Decision.effective_power_kw) <= limit_kw
                  /\ Decision.reason = "dso_limit_pct"
            /\ C2_MaxPowerKw = 0 =>
                  /\ Decision.limit_kw = None
                  /\ Decision.effective_power_kw = req
                  /\ Decision.reason = "plan"

(* the example: +80 kW requested, 50 %, max_power_kw = 100 kW gives +50 kW *)
C2_Witness ==
    /\ C2_Case
    /\ PC.max_power_kw = Some(100000)
    /\ signal_state.dso_limit_pct = Some(50)
    /\ Decision.requested_power_kw = 80000
    /\ Decision.effective_power_kw = 50000
    /\ Decision.reason = "dso_limit_pct"

(* C3 as stated: every decision has |effective_kw| <= max(p_charge_max_kw, *)
(* p_discharge_max_kw).                                                    *)
C3_AsStated ==
    HasDecision => Abs(Decision.effective_power_kw) <= PmaxKw

(* C3 (amended): every decision has |effective_kw| <= |requested_kw|, so   *)
(* |effective_kw| <= max(p_charge_max_kw, p_discharge_max_kw) whenever the *)
(* requested power is within that bound.                                   *)
C3_EffectiveBounded ==
    HasDecision =>
        /\ Abs(Decision.effective_power_kw) <= Abs(Decision.requested_power_kw)
        /\ Abs(Decision.requested_power_kw) <= PmaxKw =>
               Abs(Decision.effective_power_kw) <= PmaxKw

(* a DSO limit above the battery limits acting on a request within them *)
C3_Witness ==
    /\ HasDecision /\ PC.enabled
    /\ Decision.limit_kw # None
    /\ Decision.limit_kw[1] > PmaxKw
    /\ Decision.requested_power_kw # 0
    /\ Abs(Decision.requested_power_kw) <= PmaxKw
    /\ Decision.effective_power_kw = Decision.requested_power_kw

FeedinActive ==
    /\ cfg.feedin_limitation.enabled
    /\ \/ cfg.feedin_limitation.mode = "fixed"
       \/ /\ cfg.feedin_limitation.mode = "dynamic"
          /\ \E i \in 1..Len(cfg.feedin_limitation.rules) :
                _time_in_range(TimeOfDay(now), cfg.feedin_limitation.rules[i][1],
                               cfg.feedin_limitation.rules[i][2])
    /\ ~cfg.feedin_limitation.pv_forecast_integration

(* C5: with power control enabled and no DSO trip, safety alarm or DSO     *)
(* limit, a negative request under an active feed-in limit of L % yields   *)
(* effective = requested * L / 100 and reason feedin_limit.                *)
C5_FeedinLimit ==
    ( /\ HasDecision /\ PC.enabled
      /\ ~signal_state.dso_trip /\ ~signal_state.safety_alarm
      /\ signal_state.dso_limit_pct = None
      /\ Decision.requested_power_kw < 0
      /\ FeedinActive ) =>
        /\ Decision.effective_power_kw =
              (Decision.requested_power_kw
                  * get_current_limit_pct(cfg.feedin_limitation, now)) \div 100
        /\ Decision.reason = "feedin_limit"

(* C6: a disabled manager is transparent for every request and every       *)
(* latched signal: effective = requested, no shutdown, no limit_kw, reason *)
(* power_control_disabled, no commands.                                    *)
C6_DisabledTransparent ==
    (HasDecision /\ ~PC.enabled) =>
        /\ Decision.effective_power_kw = Decision.requested_power_kw
        /\ ~Decision.shutdown
        /\ Decision.limit_kw = None
        /\ Decision.reason = "power_control_disabled"
        /\ Decision.commands = <<>>

(* a disabled manager with writes configured decides while a trip is latched *)
C6_Witness ==
    /\ HasDecision /\ ~PC.enabled
    /\ signal_state.dso_trip
    /\ signal_state.dso_limit_pct # None
    /\ PC.writes.remote_enable # None
    /\ Decision.requested_power_kw # 0

(* v is an integer nearest to n / d *)
Nearest(v, n, d) == 2 * Abs(v * d - n) <= Abs(d)

(* C8: the commands of an enabled decision are exactly: remote_enable = off *)
(* if shutdown else on; active_power_set_w = round(effective * 1000 /      *)
(* scale); active_power_limit_pct = round(dso_limit_pct / scale) if a DSO  *)
(* limit is present and shutdown is false, else 0; each only if its        *)
(* register is configured.  Under a trip or alarm they are off, 0 and 0.   *)
C8_Commands ==
    (HasDecision /\ PC.enabled) =>
        LET w   == PC.writes
            cmd == Decision.commands
        IN  /\ DictKeys(cmd) =
                   {w.remote_enable[i].register : i \in 1..Len(w.remote_enable)}
                   \cup {w.active_power_set_w[i].register : i \in 1..Len(w.active_power_set_w)}
                   \cup {w.active_power_limit_pct[i].register :
                            i \in 1..Len(w.active_power_limit_pct)}
            /\ Len(cmd) = Cardinality(DictKeys(cmd))
            /\ w.remote_enable # None =>
                   DictGet(cmd, w.remote_enable[1].register) =
                       IF Decision.shutdown THEN w.remote_enable[1].off
                       ELSE w.remote_enable[1].on
            /\ w.active_power_set_w # None =>
                   Nearest(DictGet(cmd, w.active_power_set_w[1].register),
                           Decision.effective_power_kw * w.active_power_set_w[1].scale[2],
                           w.active_power_set_w[1].scale[1])
            /\ w.active_power_limit_pct # None =>
                   IF signal_state.dso_limit_pct # None /\ ~Decision.shutdown
                   THEN Nearest(DictGet(cmd, w.active_power_limit_pct[1].register),
                                signal_state.dso_limit_pct[1]
                                    * w.active_power_limit_pct[1].scale[2],
                                w.active_power_limit_pct[1].scale[1])
                   ELSE DictGet(cmd, w.active_power_limit_pct[1].register) = 0
            /\ (signal_state.dso_trip \/ signal_state.safety_alarm) =>
                   /\ Decision.shutdown
                   /\ w.remote_enable # None =>
                          DictGet(cmd, w.remote_enable[1].register) = w.remote_enable[1].off
                   /\ w.active_power_set_w # None =>
                          DictGet(cmd, w.active_power_set_w[1].register) = 0
                   /\ w.active_power_limit_pct # None =>
                          DictGet(cmd, w.active_power_limit_pct[1].register) = 0

(* a limited decision whose setpoint register value needed rounding *)
C8_Witness ==
    /\ HasDecision /\ PC.enabled
    /\ PC.writes = WritesScaled
    /\ ~Decision.shutdown
    /\ signal_state.dso_limit_pct = Some(25)
    /\ Decision.effective_power_kw = -20000
    /\ Decision.commands = << <<"remote_enable", 0>>, <<"active_power_set_w", -2>>,
                              <<"active_power_limit_pct", 250>> >>

(***************************************************************************)
(* SpecSM: strategy selection.  The tick thread runs an optimization cycle *)
(* whenever one is due; the API pins a strategy or returns to auto mode.   *)
(* Each call is recorded in `call` until its caller has taken the result.  *)
(***************************************************************************)

MaxScore == 2

ScoreVectors == [StrategyNames -> 0..MaxScore]

(* what a trained selector can answer; None: no selector, or it raised *)
AiProposals == IF cfg.strategies.ai_trained
               THEN {None} \cup {Some(n) : n \in StrategyNames}
               ELSE {None}

(* a plan of two entries: discharge 40 kW now, charge 40 kW an hour later *)
DaySchedule == << <<0, 40000>>, <<3600, -40000>> >>

(* what the heuristic yields for the same day: half the power *)
FallbackSchedule == << <<0, 20000>>, <<3600, -20000>> >>

SMConfigs ==
    {[SiteConfig(TRUE, None, FALSE, SignalsPlain, WritesAll, Constraints(100000, 100000),
                 FeedinOff)
        EXCEPT !.strategies = sc] :
        sc \in {StrategiesConfig("auto", "arbitrage", 1, FALSE),
                StrategiesConfig("auto", "arbitrage", 1, TRUE),
                StrategiesConfig("manual", "arbitrage", 2, FALSE)}}

MaxCycles == 1

SM == [selection_mode |-> selection_mode, manual_strategy |-> manual_strategy,
       current_strategy_name |-> current_strategy_name]

InitSM ==
    /\ cfg \in SMConfigs
    /\ now = 0
    /\ Constructed

(* decide(): an optimization cycle is due and runs *)
RunOptimization ==
    /\ call = NoCall
    /\ _needs_optimization(now, last_optimization, cfg.ems.optimization_interval_minutes)
    /\ \E forecast \in BOOLEAN :
       \E scores \in IF forecast THEN ScoreVectors ELSE {[n \in StrategyNames |-> 0]},
          ai_selected \in IF forecast THEN AiProposals ELSE {None},
          optimized \in {Some(DaySchedule)} :
          LET r == _run_optimization(state, current_plan, last_optimization, SM,
                                     cfg.strategies.switch_threshold, now, forecast,
                                     scores, ai_selected, optimized)
          IN  /\ state' = r.state
              /\ current_plan' = r.current_plan
              /\ last_optimization' = r.last_optimization
              /\ selection_mode' = r.sm.selection_mode
              /\ manual_strategy' = r.sm.manual_strategy
              /\ current_strategy_name' = r.sm.current_strategy_name
              /\ call' = IF r.selected = None THEN NoCall
                         ELSE [op |-> "select_strategy", scores |-> scores,
                               ai_selected |-> ai_selected,
                               before |-> current_strategy_name,
                               returned |-> r.selected[1]]
    /\ UNCHANGED extVars
    /\ UNCHANGED <<cfg, now, pcVars, liveVars, connected, tickVars>>

(* EmsCore.set_manual_strategy *)
SetManualStrategy ==
    /\ call = NoCall
    /\ \E strategy_name \in StrategyNames \cup {"unknown"} :
          LET r == set_manual_strategy(SM, strategy_name)
          IN  /\ selection_mode' = r.sm.selection_mode
              /\ manual_strategy' = r.sm.manual_strategy
              /\ current_strategy_name' = r.sm.current_strategy_name
              /\ last_optimization' = IF r.ok THEN None ELSE last_optimization
              /\ call' = [op |-> "set_manual_strategy", strategy_name |-> strategy_name,
                          returned |-> r.ok]
    /\ UNCHANGED extVars
    /\ UNCHANGED <<cfg, now, pcVars, state, current_plan, liveVars, connected, tickVars>>

SetAutoMode ==
    /\ call = NoCall
    /\ selection_mode' = set_auto_mode(SM).selection_mode
    /\ call' = [op |-> "set_auto_mode"]
    /\ UNCHANGED extVars
    /\ UNCHANGED <<cfg, now, pcVars, manual_strategy, current_strategy_name, coreVars,
                   liveVars, connected, tickVars>>

(* the caller has taken the result *)
Return ==
    /\ call # NoCall
    /\ call' = NoCall
    /\ UNCHANGED extVars
    /\ UNCHANGED <<cfg, now, pcVars, smVars, coreVars, liveVars, connected, tickVars>>

(* the clock advances by one optimization interval *)
NextCycle ==
    /\ call = NoCall
    /\ now < MaxCycles * 60 * cfg.ems.optimization_interval_minutes
    /\ now' = now + 60 * cfg.ems.optimization_interval_minutes
    /\ UNCHANGED extVars
    /\ UNCHANGED <<cfg, pcVars, smVars, coreVars, liveVars, connected, tickVars, call>>

NextSM == RunOptimization \/ SetManualStrategy \/ SetAutoMode \/ Return \/ NextCycle

SpecSM == InitSM /\ [][NextSM]_vars

(***************************************************************************)
(* Claims about strategy selection (SpecSM)                                *)
(***************************************************************************)

(* select_strategy has just run in auto mode with a current strategy set *)
SelectInAuto ==
    /\ call.op = "select_strategy"
    /\ selection_mode = "auto"
    /\ call.before # None

ScoreGain(y) == call.scores[y] - call.scores[call.before[1]]

IsBestScored(y) == \A z \in StrategyNames : call.scores[z] <= call.scores[y]

(* the first half of C9: nothing reaches the threshold, the strategy stays *)
C9_Keeps ==
    SelectInAuto =>
        ( (\A y \in StrategyNames \ {call.before[1]} :
               ScoreGain(y) < cfg.strategies.switch_threshold)
          => /\ call.returned = call.before[1]
             /\ current_strategy_name = call.before )

C9_Switched == SelectInAuto /\ current_strategy_name # call.before

(* C9 as stated: in auto mode, if the current strategy is X at the start   *)
(* of a cycle and every other strategy Y has score(Y) - score(X) <         *)
(* switch_threshold, select_strategy returns X and the current strategy    *)
(* stays X; the current strategy changes from X to Y only in a cycle where *)
(* Y is the best-scored strategy and score(Y) - score(X) >=                *)
(* switch_threshold, also when the learned selector proposes Y.            *)
C9_AsStated ==
    /\ C9_Keeps
    /\ C9_Switched =>
          /\ IsBestScored(current_strategy_name[1])
          /\ ScoreGain(current_strategy_name[1]) >= cfg.strategies.switch_threshold

(* C9 (amended): in auto mode, if the current strategy is X at the start   *)
(* of a cycle and every other strategy Y has score(Y) - score(X) <         *)
(* switch_threshold, select_strategy returns X and the current strategy    *)
(* stays X; the current strategy changes from X to Y only in a cycle where *)
(* score(Y) - score(X) >= switch_threshold and Y is the strategy the       *)
(* learned selector proposed, if a trained selector answered in that       *)
(* cycle, and otherwise the best-scored strategy.                          *)
C9_Hysteresis ==
    /\ C9_Keeps
    /\ C9_Switched =>
          /\ ScoreGain(current_strategy_name[1]) >= cfg.strategies.switch_threshold
          /\ call.returned = current_strategy_name[1]
          /\ IF call.ai_selected # None
             THEN current_strategy_name = call.ai_selected
             ELSE IsBestScored(current_strategy_name[1])

(* a switch to a learned proposal that is not the best-scored strategy *)
C9_Witness ==
    /\ C9_Switched
    /\ call.ai_selected = current_strategy_name
    /\ ~IsBestScored(current_strategy_name[1])
    /\ ScoreGain(current_strategy_name[1]) = cfg.strategies.switch_threshold

C10_Step ==
    /\ call'.op = "set_manual_strategy" =>
          IF call'.strategy_name \in StrategyNames
          THEN /\ call'.returned = TRUE
               /\ selection_mode' = "manual"
               /\ manual_strategy' = call'.strategy_name
               /\ current_strategy_name' = Some(call'.strategy_name)
          ELSE /\ call'.returned = FALSE
               /\ UNCHANGED <<selection_mode, manual_strategy, current_strategy_name,
                              last_optimization>>
    /\ (selection_mode = "manual" /\ call'.op \notin {"set_manual_strategy", "set_auto_mode"})
          => /\ selection_mode' = "manual"
             /\ manual_strategy' = manual_strategy
    /\ (selection_mode = "manual" /\ call'.op = "select_strategy")
          => /\ call'.returned = manual_strategy
             /\ current_strategy_name' = Some(manual_strategy)

(* C10: set_manual_strategy(S) with S registered returns true and pins S;  *)
(* while the mode is manual, every step other than another successful pin  *)
(* or set_auto_mode keeps the mode and the pinned strategy, and every      *)
(* select_strategy call returns the pinned strategy whatever the scores    *)
(* and the learned proposal; set_manual_strategy with an unregistered name *)
(* returns false and leaves selection mode, pinned strategy, current       *)
(* strategy and last_optimization unchanged.                               *)
C10_ManualPin == [][C10_Step]_vars

(* a cycle after pinning peak_shaving returns it although it scores less   *)
(* than arbitrage, the strategy that was current in auto mode              *)
C10_Witness ==
    /\ call.op = "select_strategy"
    /\ selection_mode = "manual"
    /\ manual_strategy = "peak_shaving"
    /\ call.returned = "peak_shaving"
    /\ call.scores["peak_shaving"] < call.scores["arbitrage"]
    /\ state.active_strategy = "peak_shaving"
    /\ last_optimization # None

(***************************************************************************)
(* Field by field: updates of the Plant State and asdict(state)            *)
(***************************************************************************)

(* The assignments of one update in the order the source makes them: the   *)
(* named fields of the state the update leads to.                          *)
FieldWrites(target, fields) == [i \in 1..Len(fields) |-> <<fields[i], target[fields[i]]>>]

(* the fields _handle_mqtt_telemetry assigns for a payload, in its order *)
mqtt_fields(payload) ==
    <<"telemetry_source">>
    \o (IF PyOr(payload.soc, payload.sys_soc) # None THEN <<"soc">> ELSE <<>>)
    \o (IF PyOr(payload.bat_p, payload.sys_bat_p) # None THEN <<"p_bess">> ELSE <<>>)
    \o (IF payload.sys_pv_p # None THEN <<"p_pv">> ELSE <<>>)
    \o (IF payload.sys_load_p # None THEN <<"p_load">> ELSE <<>>)
    \o (IF PyOr(payload.sys_grid_p, payload.grid_on_p) # None THEN <<"p_grid">> ELSE <<>>)

(* the fields decide() assigns under the state lock, in its order *)
decide_fields(decision, live) ==
    <<"setpoint_kw", "remote_shutdown_requested", "active_power_limit_w",
      "power_limit_reason">>
    \o (IF decision.dso_limit_pct # None THEN <<"dso_limit_pct">> ELSE <<>>)
    \o (IF live THEN <<>> ELSE <<"telemetry_source", "p_bess", "p_grid">>)

(* the fields _run_optimization assigns, in its order, with no lock held *)
optimization_fields == <<"active_strategy", "optimization_status">>

(* dataclasses.asdict(state) copies the fields in the order of declaration *)
asdict_fields ==
    <<"soc", "p_pv", "p_load", "p_grid", "p_bess", "telemetry_source", "setpoint_kw",
      "active_power_limit_w", "power_limit_reason", "remote_shutdown_requested",
      "active_strategy", "optimization_status", "dso_trip", "safety_alarm",
      "dso_limit_pct">>

(* The Plant State with the running updates taken back: every field a      *)
(* running update has assigned holds the value it had before.              *)
Committed(st, pend) ==
    [f \in DOMAIN st |->
        LET hits == {h \in Writers \X (1..Len(asdict_fields)) :
                        /\ h[2] <= Len(pend[h[1]].done)
                        /\ pend[h[1]].done[h[2]][1] = f}
        IN  IF hits = {} THEN st[f]
            ELSE LET h == CHOOSE x \in hits : \A y \in hits : x[2] <= y[2]
                 IN  pend[h[1]].done[h[2]][2]]

(* one assignment of writer w: the field, its old value kept in `done` *)
assign(st, upd) ==
    LET w == upd.todo[1]
    IN  [state |-> [st EXCEPT ![w[1]] = w[2]],
         update |-> IF Len(upd.todo) = 1 THEN NoUpdate
                    ELSE [done |-> Append(upd.done, <<w[1], st[w[1]]>>),
                          todo |-> Tail(upd.todo)]]

(* the snapshot a finished copy amounts to *)
Snapshot(copy) ==
    [f \in DOMAIN PlantState |->
        copy[CHOOSE i \in 1..Len(asdict_fields) : asdict_fields[i] = f]]

(***************************************************************************)
(* SpecOpt: the optimization cycles of one site.  A cycle runs when        *)
(* _needs_optimization says so; fetching the forecast may raise, the       *)
(* linear program may fail and the heuristic may fail.  The operator may   *)
(* pin a strategy, which makes the next cycle due at once.                 *)
(***************************************************************************)

MaxOptCycles == 2

OptConfigs ==
    {[SiteConfig(TRUE, None, FALSE, SignalsPlain, WritesAll, Constraints(100000, 100000),
                 FeedinOff)
        EXCEPT !.strategies = sc] :
        sc \in {StrategiesConfig("auto", "arbitrage", 1, FALSE),
                StrategiesConfig("manual", "peak_shaving", 1, FALSE)}}

(* what the evaluation of the four strategies can give *)
OptScores ==
    {[n \in StrategyNames |-> IF n = "arbitrage" THEN 1 ELSE 0],
     [n \in StrategyNames |-> IF n = "peak_shaving" THEN 2 ELSE 1]}

InitOpt ==
    /\ cfg \in OptConfigs
    /\ now = 0
    /\ Constructed

(* decide(): the cycle is due and runs *)
RunCycle ==
    /\ _needs_optimization(now, last_optimization, cfg.ems.optimization_interval_minutes)
    /\ \E forecast \in BOOLEAN, scores \in OptScores,
          lp \in {None, Some(DaySchedule)}, fallback \in {None, Some(FallbackSchedule)} :
          LET r == _run_optimization(state, current_plan, last_optimization, SM,
                                     cfg.strategies.switch_threshold, now, forecast,
                                     scores, None, optimize_arbitrage(lp, fallback))
          IN  /\ state' = r.state
              /\ current_plan' = r.current_plan
              /\ last_optimization' = r.last_optimization
              /\ current_strategy_name' = r.sm.current_strategy_name
    /\ UNCHANGED extVars
    /\ UNCHANGED <<cfg, now, pcVars, selection_mode, manual_strategy, liveVars,
                   connected, tickVars, call>>

(* EmsCore.set_manual_strategy with a registered name *)
PinStrategy ==
    /\ \E strategy_name \in {"arbitrage", "self_consumption"} :
          LET r == set_manual_strategy(SM, strategy_name)
          IN  /\ selection_mode' = r.sm.selection_mode
              /\ manual_strategy' = r.sm.manual_strategy
              /\ current_strategy_name' = r.sm.current_strategy_name
              /\ last_optimization' = IF r.ok THEN None ELSE last_optimization
    /\ UNCHANGED extVars
    /\ UNCHANGED <<cfg, now, pcVars, state, current_plan, liveVars, connected,
                   tickVars, call>>

(* the ticks up to the next one at which the interval has elapsed *)
AdvanceInterval ==
    /\ now < MaxOptCycles * 60 * cfg.ems.optimization_interval_minutes
    /\ now' = now + 60 * cfg.ems.optimization_interval_minutes
    /\ UNCHANGED extVars
    /\ UNCHANGED <<cfg, pcVars, smVars, coreVars, liveVars, connected, tickVars, call>>

NextOpt == RunCycle \/ PinStrategy \/ AdvanceInterval

SpecOpt == InitOpt /\ [][NextOpt]_vars

(* an optimization cycle has changed something *)
CycleStep ==
    \/ state'.optimization_status # state.optimization_status
    \/ state'.active_strategy # state.active_strategy
    \/ current_plan' # current_plan
    \/ (last_optimization' # last_optimization /\ last_optimization' # None)

C15_Step ==
    CycleStep =>
        \/ /\ state'.optimization_status = "failed"
           /\ current_plan' = current_plan
        \/ /\ state'.optimization_status = "success"
           /\ current_plan' # None
           /\ current_plan'[1].schedule \in {DaySchedule, FallbackSchedule}
           /\ last_optimization' = Some(now)

(* C15: a cycle that produces no schedule (forecast fetching raises, the   *)
(* strategy's optimize raises, or linear program and heuristic both fail)  *)
(* leaves current_plan as it was before the cycle and sets                 *)
(* optimization_status = failed; a cycle that produces a schedule, from    *)
(* the linear program or from the heuristic, ends with success.            *)
C15_FailureRetainsPlan == [][C15_Step]_vars

(***************************************************************************)
(* Spec: one site.  The tick thread runs decide() and the broadcast, then  *)
(* sleeps timestep_s; the Modbus poller connects, loses the connection and *)
(* delivers status samples; the MQTT callback delivers telemetry.  The     *)
(* handlers and the middle of decide() hold the state lock, so each is one *)
(* step.  `tick` is the position of the tick thread:                       *)
(*   decide -> apply -> write* -> broadcast -> sleep -> decide             *)
(***************************************************************************)

MaxTicks == 2

(* discharge 40 kW at 0 s, charge 40 kW from 120 s on *)
SiteSchedule == << <<0, 40000>>, <<120, -40000>> >>

SiteScores ==
    {[n \in StrategyNames |-> IF n = "arbitrage" THEN 1 ELSE 0],
     [n \in StrategyNames |-> IF n = "peak_shaving" THEN 2 ELSE 1]}

SiteBase(enabled, auto_write, modbus, mqtt) ==
    [SiteConfig(enabled, Some(100000), auto_write, SignalsPlain, WritesAll,
                Constraints(100000, 100000), FeedinOff)
        EXCEPT !.ems = [optimization_interval_minutes |-> 3, timestep_s |-> 121],
               !.modbus = [enabled |-> modbus, poll_interval_s |-> Some(16)],
               !.mqtt = [enabled |-> mqtt]]

SiteConfigs ==
    {SiteBase(TRUE, TRUE, TRUE, FALSE),
     SiteBase(TRUE, FALSE, TRUE, TRUE),
     SiteBase(FALSE, TRUE, TRUE, FALSE),
     SiteBase(TRUE, TRUE, FALSE, TRUE)}

(* read_bess_status of a connected client when no register could be read:  *)
(* the status holds no register value, but the keys the method always      *)
(* adds (connected, here 1 for True; timestamp)                            *)
NoValues == [connected |-> 1]

(* the keys of a status that are register values *)
RegisterValues(status) == DOMAIN status \ {"connected", "timestamp"}

(* status samples of the poller: signal registers, SoC and BESS power *)
SiteStatusSamples ==
    {[dso_status |-> a, alarm_word |-> b, soc_percent |-> 42, power_kw |-> 10000] :
        a \in 0..1, b \in 0..1}
    \cup {[dso_status |-> 0, alarm_word |-> 0, dso_limit |-> 50,
           soc_percent |-> 42, power_kw |-> 10000]}

(* what a pass of read_bess_status can return: these, or no register at    *)
(* all                                                                     *)
PollStatusSamples == SiteStatusSamples \cup {NoValues}

MqttPayload(soc, bat_p, sys_pv_p, sys_load_p, sys_grid_p) ==
    [soc |-> soc, sys_soc |-> None, bat_p |-> bat_p, sys_bat_p |-> None,
     sys_pv_p |-> sys_pv_p, sys_load_p |-> sys_load_p,
     sys_grid_p |-> sys_grid_p, grid_on_p |-> None]

MqttSamples ==
    {MqttPayload(Some(60), Some(-5000), Some(8000), Some(3000), Some(0))}

Init ==
    /\ cfg \in SiteConfigs
    /\ now = 0
    /\ Constructed

Commands == control_decision[1].commands

(* decide() up to the release of the state lock.  The optimization cycle   *)
(* runs before the lock is taken; it assigns the plan, last_optimization,  *)
(* active_strategy and optimization_status, which no handler reads or      *)
(* writes, so it is taken together with the locked part.                   *)
Decide ==
    /\ tick = "decide"
    /\ \E forecast \in BOOLEAN, scores \in SiteScores,
          optimized \in {None, Some(SiteSchedule)} :
          LET due == _needs_optimization(now, last_optimization,
                                         cfg.ems.optimization_interval_minutes)
              r == IF due
                   THEN _run_optimization(state, current_plan, last_optimization, SM,
                                          cfg.strategies.switch_threshold, now, forecast,
                                          scores, None, optimized)
                   ELSE [state |-> state, current_plan |-> current_plan,
                         last_optimization |-> last_optimization, sm |-> SM,
                         selected |-> None]
              requested_setpoint_kw == _get_setpoint_from_plan(r.current_plan, now)
              stale == telemetry_stale(_live_telemetry, _last_telemetry, now)
              live == _live_telemetry /\ ~stale
              decision == compute_decision(cfg.power_control, signal_state,
                                           requested_setpoint_kw, cfg.constraints)
          IN  /\ current_plan' = r.current_plan
              /\ last_optimization' = r.last_optimization
              /\ current_strategy_name' = r.sm.current_strategy_name
              /\ _live_telemetry' = live
              /\ control_decision' = Some(decision)
              /\ state' = apply_decision(
                     IF stale THEN [r.state EXCEPT !.telemetry_source = "simulation"]
                     ELSE r.state,
                     decision, live)
    /\ tick' = "apply"
    /\ UNCHANGED extVars
    /\ UNCHANGED <<cfg, now, signal_state, selection_mode, manual_strategy,
                   _last_telemetry, connected, written, retried, call>>

(* apply_commands up to its loop *)
ApplyCommands ==
    /\ tick = "apply"
    /\ tick' = IF apply_commands(cfg.power_control, cfg.modbus.enabled, connected,
                                 control_decision[1]) # <<>>
               THEN "write" ELSE "broadcast"
    /\ UNCHANGED extVars
    /\ UNCHANGED <<cfg, now, pcVars, smVars, coreVars, liveVars, connected, written,
                   retried, call>>

(* one pass of the loop of apply_commands *)
WriteRegister ==
    /\ tick = "write"
    /\ \E outcome \in WriteOutcomes(connected) :
          LET command == Commands[Len(written) + 1]
          IN  /\ written' = Append(written, <<command[1], command[2], outcome>>)
              /\ tick' = after_write(Len(written) + 1, Commands, outcome)
    /\ UNCHANGED extVars
    /\ UNCHANGED <<cfg, now, pcVars, smVars, coreVars, liveVars, connected, retried, call>>

(* the end of decide() and the broadcast *)
Broadcast ==
    /\ tick = "broadcast"
    /\ tick' = "sleep"
    /\ control_decision' = None
    /\ written' = <<>>
    /\ retried' = \E i \in 1..Len(written) : written[i][3] # "ok"
    /\ UNCHANGED extVars
    /\ UNCHANGED <<cfg, now, signal_state, smVars, coreVars, liveVars, connected, call>>

(* time.sleep(dt) of the tick loop *)
Sleep ==
    /\ tick = "sleep"
    /\ now < MaxTicks * cfg.ems.timestep_s
    /\ now' = now + cfg.ems.timestep_s
    /\ tick' = "decide"
    /\ UNCHANGED extVars
    /\ UNCHANGED <<cfg, pcVars, smVars, coreVars, liveVars, connected, written, retried,
                   call>>

(* the poller: connect() succeeds *)
ModbusConnect ==
    /\ cfg.modbus.enabled
    /\ ~connected
    /\ connected' = TRUE
    /\ UNCHANGED extVars
    /\ UNCHANGED <<cfg, now, pcVars, smVars, coreVars, liveVars, tickVars, call>>

(* the poller: disconnect() after a polling error *)
ModbusDisconnect ==
    /\ connected
    /\ connected' = FALSE
    /\ UNCHANGED extVars
    /\ UNCHANGED <<cfg, now, pcVars, smVars, coreVars, liveVars, tickVars, call>>

(* the poller: a status sample is read and handled *)
ModbusStatus ==
    /\ cfg.modbus.enabled
    /\ connected
    /\ \E status \in SiteStatusSamples :
          LET signals == ingest_status(signal_state, cfg.power_control.signals, status)
          IN  /\ signal_state' = signals
              /\ state' = _handle_modbus_status(state, status, signals)
    /\ _live_telemetry' = TRUE
    /\ _last_telemetry' = Some(now)
    /\ UNCHANGED extVars
    /\ UNCHANGED <<cfg, now, control_decision, smVars, current_plan, last_optimization,
                   connected, tickVars, call>>

(* the MQTT callback: a telemetry message is handled *)
MqttTelemetry ==
    /\ cfg.mqtt.enabled
    /\ \E payload \in MqttSamples :
          state' = _handle_mqtt_telemetry(state, payload)
    /\ _live_telemetry' = TRUE
    /\ _last_telemetry' = Some(now)
    /\ UNCHANGED extVars
    /\ UNCHANGED <<cfg, now, pcVars, smVars, current_plan, last_optimization,
                   connected, tickVars, call>>

Next ==
    \/ Decide
    \/ ApplyCommands
    \/ WriteRegister
    \/ Broadcast
    \/ Sleep
    \/ ModbusConnect
    \/ ModbusDisconnect
    \/ ModbusStatus
    \/ MqttTelemetry

Spec == Init /\ [][Next]_vars

(***************************************************************************)
(* Claims about the site controller (Spec)                                 *)
(***************************************************************************)

C4_Invariant == state.remote_shutdown_requested => state.setpoint_kw = 0

C4_Step ==
    (\/ state'.setpoint_kw # state.setpoint_kw
     \/ state'.remote_shutdown_requested # state.remote_shutdown_requested)
    => /\ tick = "decide" /\ tick' = "apply"
       /\ state'.setpoint_kw = control_decision'[1].effective_power_kw
       /\ state'.remote_shutdown_requested = control_decision'[1].shutdown

(* C4: in every Plant State reached by any interleaving of ticks, Modbus   *)
(* samples and MQTT messages, remote_shutdown_requested implies            *)
(* setpoint_kw = 0; only the tick changes either field, and it assigns     *)
(* both from one Control Decision.                                         *)
C4_ShutdownZeroSetpoint == []C4_Invariant /\ [][C4_Step]_vars

(* a tick has shut the site down against a non-zero plan value, on a site  *)
(* where an MQTT message followed the Modbus sample that latched the trip  *)
C4_Witness ==
    /\ state.remote_shutdown_requested
    /\ state.setpoint_kw = 0
    /\ tick = "apply"
    /\ control_decision[1].requested_power_kw # 0
    /\ state.dso_trip
    /\ state.telemetry_source = "mqtt"

(* the tick thread takes a step *)
TickStep == tick' # tick \/ written' # written

C7_Step ==
    /\ (tick = "apply" /\ tick' = "write")
          => cfg.power_control.auto_write /\ connected
    /\ (tick = "apply" /\ TickStep /\ ~(cfg.power_control.auto_write /\ connected))
          => tick' = "broadcast" /\ written' = <<>>
    /\ Len(written') > Len(written) => tick = "write"
    /\ (tick = "write" /\ TickStep)
          => /\ Len(written') = Len(written) + 1
             /\ \A i \in 1..Len(written) : written'[i] = written[i]
             /\ written'[Len(written')][1] = Commands[Len(written')][1]
             /\ written'[Len(written')][2] = Commands[Len(written')][2]
             /\ written'[Len(written')][3] = "ok" => connected
             /\ tick' = IF Len(written') = Len(Commands) THEN "broadcast" ELSE "write"
    /\ (tick = "broadcast" /\ TickStep) => tick' = "sleep"
    /\ (tick = "sleep" /\ TickStep) => tick' = "decide"

(* C7: apply_commands enters its write loop only if auto_write is enabled  *)
(* and the Modbus client is connected at the time of the call, and writes  *)
(* happen nowhere else; inside the loop every command of the decision is   *)
(* attempted in order whatever the outcome (ok, failed, raised) of the     *)
(* earlier writes, a write succeeds only while connected, and after the    *)
(* loop the tick goes on to the broadcast, the sleep and the next decide,  *)
(* which issues the commands of its own decision again.                    *)
C7_ApplyCommands == [][C7_Step]_vars

(* the tick after one with failed writes has attempted all three commands  *)
(* of its decision although the first write failed and the second raised   *)
C7_Witness ==
    /\ retried
    /\ tick = "broadcast"
    /\ Len(written) = 3
    /\ Len(Commands) = 3
    /\ written[1][3] = "failed"
    /\ written[2][3] = "raised"
    /\ written[3][3] = "ok"

(* no Modbus or MQTT sample has arrived within the last 120 s *)
NoLiveSample == _last_telemetry = None \/ now - _last_telemetry[1] > StaleAfter

(* the locked part of decide() has just run *)
DecideStep == tick = "decide" /\ tick' = "apply"

C11_AsStated == state.telemetry_source = "simulation" <=> NoLiveSample

C11_Invariant == state.telemetry_source = "simulation" => NoLiveSample

C11_Step == (DecideStep /\ NoLiveSample') => state'.telemetry_source = "simulation"

(* C11: telemetry_source = simulation only if no live sample has arrived   *)
(* within the last 120 s, and when the locked part of a tick ends with no  *)
(* live sample within the last 120 s, telemetry_source = simulation.       *)
(* Between the moment the last sample becomes older than 120 s and the     *)
(* next tick the source still names the sample's origin.                   *)
C11_SimulationSource == []C11_Invariant /\ [][C11_Step]_vars

(* a tick has reverted a site to simulation whose last sample is 121 s old *)
C11_Witness ==
    /\ tick = "apply"
    /\ _last_telemetry # None
    /\ now - _last_telemetry[1] > StaleAfter
    /\ state.telemetry_source = "simulation"
    /\ state.soc = 42

(* a telemetry handler has stored a sample *)
SampleStep == _last_telemetry' # _last_telemetry \/ (~_live_telemetry /\ _live_telemetry')

LiveSources == {"modbus", "mqtt"}

C12_Step ==
    /\ (DecideStep /\ _last_telemetry # None /\ now - _last_telemetry[1] > StaleAfter)
          => /\ state'.telemetry_source = "simulation"
             /\ ~_live_telemetry'
             /\ _last_telemetry' = _last_telemetry
    /\ (state.telemetry_source = "simulation" /\ state'.telemetry_source # "simulation")
          => SampleStep
    /\ SampleStep
          => /\ state'.telemetry_source \in LiveSources
             /\ state'.telemetry_source = "modbus" => cfg.modbus.enabled /\ connected
             /\ state'.telemetry_source = "mqtt" => cfg.mqtt.enabled
             /\ _live_telemetry'
             /\ _last_telemetry' = Some(now)
             /\ ~TickStep

(* C12: a tick whose last live sample is more than 120 s old sets          *)
(* telemetry_source = simulation, the first such tick and every later one; *)
(* telemetry_source leaves simulation only by a new live sample, and a     *)
(* sample sets it to the sample's own source (modbus or mqtt).             *)
C12_StaleUntilSample == [][C12_Step]_vars

(* the second tick after an MQTT sample went stale still finds simulation  *)
C12_Witness ==
    /\ tick = "apply"
    /\ _last_telemetry = Some(0)
    /\ now - _last_telemetry[1] > 2 * StaleAfter
    /\ state.telemetry_source = "simulation"
    /\ ~_live_telemetry
    /\ state.soc = 60

C13_Step ==
    DecideStep =>
        /\ state'.setpoint_kw = control_decision'[1].effective_power_kw
        /\ NoLiveSample
              => /\ state'.p_bess = state'.setpoint_kw
                 /\ state'.p_grid = state'.p_load - state'.p_pv - state'.p_bess
                 /\ state'.p_load = state.p_load
                 /\ state'.p_pv = state.p_pv
        /\ ~NoLiveSample
              => /\ state'.p_bess = state.p_bess
                 /\ state'.p_grid = state.p_grid
                 /\ state'.soc = state.soc
                 /\ state'.telemetry_source = state.telemetry_source
                 /\ state.telemetry_source \in LiveSources

(* C13: when the locked part of a tick ends and no live sample has arrived *)
(* within 120 s (or ever), p_bess equals that tick's effective setpoint_kw *)
(* and p_grid = p_load - p_pv - p_bess; when a live sample has arrived     *)
(* within 120 s, the tick leaves p_bess, p_grid and soc as the handlers    *)
(* wrote them.                                                             *)
C13_SimulatedReaction == [][C13_Step]_vars

(* an MQTT feed (soc 60, pv 8 kW, load 3 kW) went stale and the tick at    *)
(* 121 s charges with 40 kW: p_bess = -40 kW, p_grid = 3 - 8 + 40 = 35 kW  *)
C13_Witness ==
    /\ tick = "apply"
    /\ now = 121
    /\ _last_telemetry = Some(0)
    /\ state.telemetry_source = "simulation"
    /\ state.soc = 60
    /\ state.setpoint_kw = -40000
    /\ state.p_bess = -40000
    /\ state.p_grid = 35000

(* the plan the claim calls missing: none stored, or one without entries *)
NoPlan == current_plan = None \/ current_plan[1].schedule = <<>>

IntervalElapsed ==
    /\ last_optimization # None
    /\ now - last_optimization[1] >= 60 * cfg.ems.optimization_interval_minutes

(* what a cycle leaves behind: failed with plan and time untouched, or     *)
(* success with a plan stored and last_optimization = now                  *)
CycleRan ==
    \/ /\ state'.optimization_status = "failed"
       /\ current_plan' = current_plan
       /\ last_optimization' = last_optimization
    \/ /\ state'.optimization_status = "success"
       /\ current_plan' # None
       /\ last_optimization' = Some(now)

NoCycleRan ==
    /\ state'.optimization_status = state.optimization_status
    /\ state'.active_strategy = state.active_strategy
    /\ current_plan' = current_plan
    /\ last_optimization' = last_optimization

C14_Step ==
    DecideStep => IF IntervalElapsed \/ NoPlan THEN CycleRan ELSE NoCycleRan

(* C14: a tick runs an optimization cycle whenever now - last_optimization *)
(* >= optimization_interval_minutes or no plan exists (none stored yet, or *)
(* the stored plan has no schedule entries), and runs none otherwise.      *)
C14_OptimizationDue == [][C14_Step]_vars

(***************************************************************************)
(* SpecSnap: the Plant State field by field.  The MQTT callback assigns    *)
(* the fields of a sample one after the other under the state lock; the    *)
(* tick thread assigns active_strategy and optimization_status in          *)
(* _run_optimization before it takes the lock, then the decision fields    *)
(* under the lock, then takes the broadcast snapshot after releasing it;   *)
(* a web request takes a snapshot with to_dict() or get_site_state().      *)
(* asdict(state) copies one field at a time and takes no lock.             *)
(*   tick: decide -> optimize -> lock -> locked -> broadcast -> decide     *)
(***************************************************************************)

SnapConfigs == {SiteBase(TRUE, FALSE, FALSE, TRUE)}

InitSnap ==
    /\ cfg \in SnapConfigs
    /\ now = 0
    /\ Constructed

(* what a step leaves of the snapshot being taken: the states without a    *)
(* half-applied update that existed while it was copied                    *)
Seen(st, pend) ==
    IF reader = NoRead THEN reader
    ELSE [reader EXCEPT !.seen = @ \cup {Committed(st, pend)}]

(* decide(): a cycle is due; _run_optimization starts assigning *)
SnapOptimize ==
    /\ tick = "decide"
    /\ _needs_optimization(now, last_optimization, cfg.ems.optimization_interval_minutes)
    /\ \E scores \in SiteScores :
          LET r == _run_optimization(state, current_plan, last_optimization, SM,
                                     cfg.strategies.switch_threshold, now, TRUE,
                                     scores, None, Some(SiteSchedule))
          IN  /\ pending' = [pending EXCEPT !["tick"] =
                                [done |-> <<>>,
                                 todo |-> FieldWrites(r.state, optimization_fields)]]
              /\ current_plan' = r.current_plan
              /\ last_optimization' = r.last_optimization
              /\ current_strategy_name' = r.sm.current_strategy_name
    /\ tick' = "optimize"
    /\ UNCHANGED <<cfg, now, pcVars, selection_mode, manual_strategy, state, liveVars,
                   connected, written, retried, call, _state_lock, reader, busVars,
                   sseVars, stopVars, appVars>>

(* decide(): the tick thread takes the state lock and computes the decision *)
SnapLock ==
    /\ \/ tick = "lock"
       \/ /\ tick = "decide"
          /\ ~_needs_optimization(now, last_optimization,
                                  cfg.ems.optimization_interval_minutes)
    /\ _state_lock = "none"
    /\ _state_lock' = "tick"
    /\ LET decision == compute_decision(cfg.power_control, signal_state,
                                        _get_setpoint_from_plan(current_plan, now),
                                        cfg.constraints)
           target == apply_decision(state, decision, _live_telemetry)
       IN  /\ control_decision' = Some(decision)
           /\ pending' = [pending EXCEPT !["tick"] =
                             [done |-> <<>>,
                              todo |-> FieldWrites(target,
                                           decide_fields(decision, _live_telemetry))]]
    /\ tick' = "locked"
    /\ UNCHANGED <<cfg, now, signal_state, smVars, coreVars, liveVars, connected,
                   written, retried, call, reader, busVars, sseVars, stopVars, appVars>>

(* the MQTT callback takes the state lock for a message *)
SnapMqtt ==
    /\ _state_lock = "none"
    /\ _state_lock' = "mqtt"
    /\ \E payload \in MqttSamples :
          pending' = [pending EXCEPT !["mqtt"] =
                         [done |-> <<>>,
                          todo |-> FieldWrites(_handle_mqtt_telemetry(state, payload),
                                               mqtt_fields(payload))]]
    /\ _live_telemetry' = TRUE
    /\ _last_telemetry' = Some(now)
    /\ UNCHANGED <<cfg, now, pcVars, smVars, coreVars, connected, tickVars, call,
                   reader, busVars, sseVars, stopVars, appVars>>

(* a thread assigns the next field of its update; after the last one it    *)
(* releases the state lock if it holds it                                  *)
SnapAssign ==
    \E w \in Writers :
        /\ pending[w].todo # <<>>
        /\ w = "mqtt" => _state_lock = "mqtt"
        /\ w = "tick" => tick = "optimize" \/ (tick = "locked" /\ _state_lock = "tick")
        /\ LET r == assign(state, pending[w])
               pend == [pending EXCEPT ![w] = r.update]
           IN  /\ state' = r.state
               /\ pending' = pend
               /\ reader' = Seen(r.state, pend)
               /\ _state_lock' = IF r.update = NoUpdate /\ _state_lock = w
                                 THEN "none" ELSE _state_lock
               /\ tick' = IF w = "tick" /\ r.update = NoUpdate
                          THEN (IF tick = "optimize" THEN "lock" ELSE "broadcast")
                          ELSE tick
        /\ UNCHANGED <<cfg, now, pcVars, smVars, current_plan, last_optimization,
                       liveVars, connected, written, retried, call, busVars, sseVars,
                       stopVars, appVars>>

(* _broadcast: the tick thread starts to_dict(); a web request starts      *)
(* to_dict() or get_site_state()                                           *)
SnapRead ==
    /\ reader = NoRead
    /\ \E by \in {"broadcast", "web"} :
          /\ by = "broadcast" => tick = "broadcast"
          /\ reader' = [by |-> by, copy |-> <<>>,
                        seen |-> {Committed(state, pending)}]
          /\ tick' = IF by = "broadcast" THEN "snapshot" ELSE tick
    /\ UNCHANGED <<cfg, now, pcVars, smVars, coreVars, liveVars, connected, written,
                   retried, call, _state_lock, pending, busVars, sseVars, stopVars, appVars>>

(* asdict copies the next field *)
SnapCopy ==
    /\ reader # NoRead
    /\ Len(reader.copy) < Len(asdict_fields)
    /\ reader' = [reader EXCEPT
                     !.copy = Append(@, state[asdict_fields[Len(reader.copy) + 1]])]
    /\ UNCHANGED <<cfg, now, pcVars, smVars, coreVars, liveVars, connected, tickVars,
                   call, _state_lock, pending, busVars, sseVars, stopVars, appVars>>

(* the snapshot is handed to the subscribers or to the web client *)
SnapReturn ==
    /\ reader # NoRead
    /\ Len(reader.copy) = Len(asdict_fields)
    /\ reader' = NoRead
    /\ tick' = IF reader.by = "broadcast" THEN "decide" ELSE tick
    /\ UNCHANGED <<cfg, now, pcVars, smVars, coreVars, liveVars, connected, written,
                   retried, call, _state_lock, pending, busVars, sseVars, stopVars, appVars>>

NextSnap ==
    \/ SnapOptimize
    \/ SnapLock
    \/ SnapMqtt
    \/ SnapAssign
    \/ SnapRead
    \/ SnapCopy
    \/ SnapReturn

SpecSnap == InitSnap /\ [][NextSnap]_vars

(* a finished snapshot is a Plant State without a half-applied update      *)
SnapshotWhole ==
    (reader # NoRead /\ Len(reader.copy) = Len(asdict_fields))
        => Snapshot(reader.copy) \in reader.seen

(* a field of the Plant State is assigned only with the state lock held *)
MutationLocked == state' # state => _state_lock # "none"

(* a field is copied into a snapshot only with the state lock held *)
CopyLocked ==
    (reader # NoRead /\ reader' # NoRead /\ reader'.copy # reader.copy)
        => _state_lock = reader.by

(* C16: every mutation of the Plant State (telemetry handlers, the tick's  *)
(* decision step, the optimization cycle's writes to active_strategy and   *)
(* optimization_status) is made while holding the state lock, every        *)
(* snapshot handed to a reader is taken under that lock, and so no         *)
(* snapshot shows a state in which only part of one update is applied.     *)
C16_LockDiscipline == []SnapshotWhole /\ [][MutationLocked /\ CopyLocked]_vars

(***************************************************************************)
(* SpecBus: the tick thread and the Modbus poller on one ModbusClient.     *)
(* Every request (a register read, an RTC write of sync_time, a command    *)
(* write of apply_commands) is sent and answered inside `with self._lock`; *)
(* connect() and disconnect() take the same lock.  The tick thread takes   *)
(* the state lock, copies its decision into the Plant State, releases the  *)
(* lock and only then calls apply_commands.                                *)
(*   tick: decide -> locked -> updated -> apply -> (write -> writing)*     *)
(*         -> broadcast -> decide                                          *)
(*   poller: head -> connect -> rtc/read -> wire -> ... -> handle -> sleep *)
(***************************************************************************)

(* sync_time writes the registers 524..529 *)
RtcRegisters == 6

(* registers of the device profile that read_bess_status reads *)
MaxStatusRegisters == 2

(* what the plan asks for at the time of a tick *)
BusRequested == {0, 40000}

BusConfigs == {SiteBase(TRUE, TRUE, TRUE, FALSE)}

(* the poller thread at the head of its loop *)
PollerIdle == [at |-> "head", left |-> 0, synced |-> FALSE, status |-> None, wait |-> 0]

(* _modbus_poll_loop: the pause between two passes, in half seconds:       *)
(* max(poll_interval_s or 2.0, 0.5)                                        *)
poll_interval(modbus) == Max(PyOr(modbus.poll_interval_s, Some(4))[1], 1)

(* Mutant: after a failure the loop waits the whole interval. *)
retry_delay_whole(interval) == interval

(* the pause after a failed connect and after an exception, in half        *)
(* seconds: min(interval, 5.0)                                             *)
retry_delay(interval) == Min(interval, 10)

InitBus ==
    /\ cfg \in BusConfigs
    /\ now = 0
    /\ poller = PollerIdle
    /\ signal_state = SignalState
    /\ control_decision = None
    /\ selection_mode = cfg.strategies.selection_mode
    /\ manual_strategy = cfg.strategies.manual_strategy
    /\ current_strategy_name = None
    /\ state = PlantState
    /\ current_plan = None
    /\ last_optimization = None
    /\ _live_telemetry = FALSE
    /\ _last_telemetry = None
    /\ connected = FALSE
    /\ tick = "decide"
    /\ written = <<>>
    /\ retried = FALSE
    /\ call = NoCall
    /\ _state_lock = "none"
    /\ pending = NoUpdates
    /\ reader = NoRead
    /\ _lock = "none"
    /\ inflight = {}
    /\ _listeners = <<>>
    /\ queues = [s \in Subscribers |-> <<>>]
    /\ delivered = [s \in Subscribers |-> NotSubscribed]
    /\ _stop = FALSE
    /\ mqtt_client = "idle"
    /\ stopper = "idle"
    /\ telemetry_buffer = <<>>
    /\ _last_sim_telemetry = None
    /\ _telemetry_lock = "none"
    /\ sites = {}
    /\ app = NoApp

(* Mutant: a request is sent without waiting for the client's lock. *)
lock_free_always(holder) == TRUE

(* `with self._lock` can be entered *)
lock_free(holder) == holder = "none"

(* decide(): with self._state_lock *)
BusLock ==
    /\ tick = "decide"
    /\ _state_lock = "none"
    /\ _state_lock' = "tick"
    /\ tick' = "locked"
    /\ UNCHANGED <<cfg, now, pcVars, smVars, coreVars, liveVars, connected, written,
                   retried, call, pending, reader, busVars, sseVars, stopVars, appVars>>

(* decide() under the state lock: the decision and its copy into the state *)
BusDecide ==
    /\ tick = "locked"
    /\ \E requested \in BusRequested :
          LET decision == compute_decision(cfg.power_control, signal_state, requested,
                                           cfg.constraints)
          IN  /\ control_decision' = Some(decision)
              /\ state' = apply_decision(state, decision, _live_telemetry)
    /\ tick' = "updated"
    /\ UNCHANGED <<cfg, now, signal_state, smVars, current_plan, last_optimization,
                   liveVars, connected, written, retried, call, extVars>>

(* decide(): the end of the with block *)
BusUnlock ==
    /\ tick = "updated"
    /\ _state_lock' = "none"
    /\ tick' = "apply"
    /\ UNCHANGED <<cfg, now, pcVars, smVars, coreVars, liveVars, connected, written,
                   retried, call, pending, reader, busVars, sseVars, stopVars, appVars>>

(* apply_commands up to its loop *)
BusApply ==
    /\ tick = "apply"
    /\ tick' = IF apply_commands(cfg.power_control, cfg.modbus.enabled, connected,
                                 control_decision[1]) # <<>>
               THEN "write" ELSE "broadcast"
    /\ UNCHANGED <<cfg, now, pcVars, smVars, coreVars, liveVars, connected, written,
                   retried, call, extVars>>

(* write_register: the request goes out under the client's lock; without a *)
(* connection it returns False at once                                     *)
BusWrite ==
    /\ tick = "write"
    /\ LET command == Commands[Len(written) + 1]
       IN  IF connected
           THEN /\ lock_free(_lock)
                /\ _lock' = "tick"
                /\ inflight' = inflight \cup {<<"tick", command[1], command[2]>>}
                /\ tick' = "writing"
                /\ UNCHANGED written
           ELSE /\ written' = Append(written, <<command[1], command[2], "failed">>)
                /\ tick' = after_write(Len(written) + 1, Commands, "failed")
                /\ UNCHANGED <<_lock, inflight>>
    /\ UNCHANGED <<cfg, now, pcVars, smVars, coreVars, liveVars, connected, retried,
                   call, snapVars, poller, sseVars, stopVars, appVars>>

(* the answer to a command write *)
BusWritten ==
    /\ tick = "writing"
    /\ \E outcome \in WriteOutcomes(connected) :
          LET command == Commands[Len(written) + 1]
          IN  /\ written' = Append(written, <<command[1], command[2], outcome>>)
              /\ tick' = after_write(Len(written) + 1, Commands, outcome)
    /\ inflight' = {r \in inflight : r[1] # "tick"}
    /\ _lock' = "none"
    /\ UNCHANGED <<cfg, now, pcVars, smVars, coreVars, liveVars, connected, retried,
                   call, snapVars, poller, sseVars, stopVars, appVars>>

(* the end of decide(), the broadcast and the sleep *)
BusBroadcast ==
    /\ tick = "broadcast"
    /\ tick' = "decide"
    /\ control_decision' = None
    /\ written' = <<>>
    /\ UNCHANGED <<cfg, now, signal_state, smVars, coreVars, liveVars, connected,
                   retried, call, extVars>>

(* the poller at the head of its loop *)
PollHead ==
    /\ poller.at = "head"
    /\ poller' = IF ~connected THEN [poller EXCEPT !.at = "connect"]
                 ELSE IF ~poller.synced
                 THEN [poller EXCEPT !.at = "rtc", !.left = RtcRegisters]
                 ELSE [poller EXCEPT !.at = "read", !.left = MaxStatusRegisters]
    /\ UNCHANGED <<cfg, now, pcVars, smVars, coreVars, liveVars, connected, tickVars,
                   call, snapVars, _lock, inflight, sseVars, stopVars, appVars>>

(* connect(), under the client's lock *)
PollConnect ==
    /\ poller.at = "connect"
    /\ lock_free(_lock)
    /\ \E ok \in BOOLEAN :
          /\ connected' = ok
          /\ poller' = [poller EXCEPT !.at = IF ok THEN "head" ELSE "sleep",
                                      !.synced = IF ok THEN @ ELSE FALSE,
                                      !.wait = IF ok THEN 0
                                               ELSE retry_delay(poll_interval(cfg.modbus))]
    /\ UNCHANGED <<cfg, now, pcVars, smVars, coreVars, liveVars, tickVars, call,
                   snapVars, _lock, inflight, sseVars, stopVars, appVars>>

(* sync_time or read_bess_status has gone through all its registers; the   *)
(* status is what the reads returned, success whether every write of       *)
(* sync_time was acknowledged                                              *)
PollNext ==
    /\ poller.at \in {"rtc", "read"}
    /\ poller.left = 0
    /\ \E status \in PollStatusSamples, success \in BOOLEAN :
          poller' = IF poller.at = "rtc"
                    THEN [poller EXCEPT !.at = "read", !.left = MaxStatusRegisters,
                                        !.synced = connected /\ success]
                    ELSE [poller EXCEPT !.at = "handle", !.status = Some(status)]
    /\ UNCHANGED <<cfg, now, pcVars, smVars, coreVars, liveVars, connected, tickVars,
                   call, snapVars, _lock, inflight, sseVars, stopVars, appVars>>

(* _read_raw / write_holding_register: one request goes out under the      *)
(* client's lock; without a connection the call returns at once            *)
PollSend ==
    /\ poller.at \in {"rtc", "read"}
    /\ poller.left > 0
    /\ IF connected
       THEN /\ lock_free(_lock)
            /\ _lock' = "poller"
            /\ inflight' = inflight \cup {<<"poller", poller.at, poller.left>>}
            /\ UNCHANGED poller
       ELSE /\ poller' = [poller EXCEPT !.left = @ - 1]
            /\ UNCHANGED <<_lock, inflight>>
    /\ UNCHANGED <<cfg, now, pcVars, smVars, coreVars, liveVars, connected, tickVars,
                   call, snapVars, sseVars, stopVars, appVars>>

(* the answer to a poller request *)
PollReceive ==
    /\ \E r \in inflight : r[1] = "poller"
    /\ inflight' = {r \in inflight : r[1] # "poller"}
    /\ _lock' = "none"
    /\ poller' = [poller EXCEPT !.left = @ - 1]
    /\ UNCHANGED <<cfg, now, pcVars, smVars, coreVars, liveVars, connected, tickVars,
                   call, snapVars, sseVars, stopVars, appVars>>

(* _handle_modbus_status, under the state lock; or the loop body raised *)
PollHandle ==
    /\ poller.at = "handle"
    /\ \E raised \in BOOLEAN :
          IF raised
          THEN /\ poller' = [poller EXCEPT !.at = "error"]
               /\ UNCHANGED <<signal_state, state, liveVars>>
          ELSE /\ _state_lock = "none"
               /\ LET status == poller.status[1]
                      signals == ingest_status(signal_state, cfg.power_control.signals,
                                               status)
                  IN  /\ signal_state' = signals
                      /\ state' = _handle_modbus_status(state, status, signals)
               /\ _live_telemetry' = TRUE
               /\ _last_telemetry' = Some(now)
               /\ poller' = [poller EXCEPT !.at = "sleep",
                                           !.wait = poll_interval(cfg.modbus)]
    /\ UNCHANGED <<cfg, now, control_decision, smVars, current_plan, last_optimization,
                   connected, tickVars, call, snapVars, _lock, inflight, sseVars,
                   stopVars, appVars>>

(* the except branch: disconnect(), under the client's lock *)
PollError ==
    /\ poller.at = "error"
    /\ IF connected
       THEN lock_free(_lock) /\ connected' = FALSE
       ELSE UNCHANGED connected
    /\ poller' = [poller EXCEPT !.at = "sleep", !.synced = FALSE,
                                !.wait = retry_delay(poll_interval(cfg.modbus))]
    /\ UNCHANGED <<cfg, now, pcVars, smVars, coreVars, liveVars, tickVars, call,
                   snapVars, _lock, inflight, sseVars, stopVars, appVars>>

(* time.sleep at the end of a pass *)
PollSleep ==
    /\ poller.at = "sleep"
    /\ poller' = [poller EXCEPT !.at = "head", !.status = None, !.wait = 0]
    /\ UNCHANGED <<cfg, now, pcVars, smVars, coreVars, liveVars, connected, tickVars,
                   call, snapVars, _lock, inflight, sseVars, stopVars, appVars>>

NextBus ==
    \/ BusLock
    \/ BusDecide
    \/ BusUnlock
    \/ BusApply
    \/ BusWrite
    \/ BusWritten
    \/ BusBroadcast
    \/ PollHead
    \/ PollConnect
    \/ PollNext
    \/ PollSend
    \/ PollReceive
    \/ PollHandle
    \/ PollError
    \/ PollSleep

SpecBus == InitBus /\ [][NextBus]_vars

(* the tick thread is inside apply_commands *)
Applying == tick \in {"apply", "write", "writing"}

C17_Invariant ==
    /\ Cardinality(inflight) <= 1
    /\ \A r \in inflight : _lock = r[1]
    /\ Applying =>
          /\ _state_lock # "tick"
          /\ control_decision # None
          /\ state.setpoint_kw = control_decision[1].effective_power_kw
          /\ state.power_limit_reason = Some(control_decision[1].reason)
          /\ state.remote_shutdown_requested = control_decision[1].shutdown
          /\ \A i \in 1..Len(written) :
                /\ i <= Len(Commands)
                /\ written[i][1] = Commands[i][1]
                /\ written[i][2] = Commands[i][2]
    /\ \A r \in inflight :
          r[1] = "tick" =>
             /\ tick = "writing"
             /\ r[2] = Commands[Len(written) + 1][1]
             /\ r[3] = Commands[Len(written) + 1][2]
    /\ ~Applying => written = <<>> \/ tick = "broadcast"

(* C17: the command writes of a tick are issued only after that tick's     *)
(* Plant State update (setpoint_kw, power_limit_reason,                    *)
(* remote_shutdown_requested) is complete and the state lock released; the *)
(* values written are those of that tick's Control Decision, in its order, *)
(* so writes of different ticks never interleave; every Modbus request     *)
(* (poller read, RTC write, command write) is on the wire only while its   *)
(* thread holds the client's lock, so at most one request is in flight.    *)
C17_WritesAfterUpdate == []C17_Invariant

(* the second command of a shutdown decision is on the wire while the      *)
(* poller waits with an RTC write for the client's lock                    *)
C17_Witness ==
    /\ tick = "writing"
    /\ Len(written) = 1
    /\ inflight = {<<"tick", Commands[2][1], Commands[2][2]>>}
    /\ control_decision[1].shutdown
    /\ state.remote_shutdown_requested
    /\ poller.at = "rtc"
    /\ poller.left > 0
    /\ _state_lock = "none"

(***************************************************************************)
(* SpecSSE: the tick loop and the subscribers of the event stream.  A web  *)
(* client registers a queue.Queue(maxsize=10), dequeues from it and        *)
(* unregisters it; _broadcast copies the list of queues and offers each    *)
(* one a snapshot with put_nowait.  A snapshot is named by the time of its *)
(* tick.                                                                   *)
(*   tick: decide -> locked -> updated -> apply -> broadcast -> decide     *)
(***************************************************************************)

(* queue.Queue(maxsize=10) *)
MaxQueue == 10

MaxBroadcasts == 10

SSEConfigs == {SiteBase(TRUE, FALSE, FALSE, FALSE)}

InitSSE ==
    /\ cfg \in SSEConfigs
    /\ now = 0
    /\ Constructed

(* Mutant: the queue takes every item. *)
put_nowait_unbounded(q, item) == Append(q, item)

(* Queue.put_nowait: the item is appended unless the queue is full; then   *)
(* queue.Full is raised and _broadcast passes over it.                     *)
put_nowait(q, item) == IF Len(q) >= MaxQueue THEN q ELSE Append(q, item)

(* decide() up to the assignments under the state lock; the plan asks for  *)
(* nothing                                                                 *)
SseDecide ==
    /\ tick = "decide"
    /\ _state_lock = "none"
    /\ _state_lock' = "tick"
    /\ LET decision == compute_decision(cfg.power_control, signal_state, 0,
                                        cfg.constraints)
       IN  /\ control_decision' = Some(decision)
           /\ state' = apply_decision(state, decision, _live_telemetry)
    /\ tick' = "updated"
    /\ UNCHANGED <<cfg, now, signal_state, smVars, current_plan, last_optimization,
                   liveVars, connected, written, retried, call, pending, reader,
                   busVars, sseVars, stopVars, appVars>>

(* sse_register: a new empty queue is appended to the listeners *)
SseRegister ==
    /\ \E s \in Subscribers :
          /\ \A i \in 1..Len(_listeners) : _listeners[i] # s
          /\ ~delivered[s].closed
          /\ _listeners' = Append(_listeners, s)
    /\ UNCHANGED <<cfg, now, pcVars, smVars, coreVars, liveVars, connected, tickVars,
                   call, snapVars, busVars, queues, delivered, stopVars, appVars>>

(* sse_unregister, when the client's generator is closed; the queue is    *)
(* dropped with it, and a put that _broadcast still makes into it is lost  *)
SseUnregister ==
    /\ \E i \in 1..Len(_listeners) :
          /\ _listeners' = [j \in 1..(Len(_listeners) - 1) |->
                               IF j < i THEN _listeners[j] ELSE _listeners[j + 1]]
          /\ queues' = [queues EXCEPT ![_listeners[i]] = <<>>]
          /\ delivered' = [delivered EXCEPT ![_listeners[i]] =
                               [last |-> None, closed |-> TRUE]]
    /\ UNCHANGED <<cfg, now, pcVars, smVars, coreVars, liveVars, connected, tickVars,
                   call, snapVars, busVars, stopVars, appVars>>

(* q.get() in the client's generator *)
SseGet ==
    /\ \E s \in Subscribers :
          /\ \E i \in 1..Len(_listeners) : _listeners[i] = s
          /\ queues[s] # <<>>
          /\ delivered' = [delivered EXCEPT ![s].last = Some(Head(queues[s]))]
          /\ queues' = [queues EXCEPT ![s] = Tail(@)]
    /\ UNCHANGED <<cfg, now, pcVars, smVars, coreVars, liveVars, connected, tickVars,
                   call, snapVars, busVars, _listeners, stopVars, appVars>>

(* _broadcast: list(self._listeners) *)
BroadcastStart ==
    /\ tick = "broadcast"
    /\ call = NoCall
    /\ call' = [op |-> "_broadcast", listeners |-> _listeners]
    /\ UNCHANGED <<cfg, now, pcVars, smVars, coreVars, liveVars, connected, tickVars,
                   extVars>>

(* _broadcast: one pass of its loop *)
BroadcastPut ==
    /\ call.op = "_broadcast"
    /\ call.listeners # <<>>
    /\ queues' = [queues EXCEPT ![Head(call.listeners)] =
                      IF delivered[Head(call.listeners)].closed THEN @
                      ELSE put_nowait(@, now)]
    /\ call' = [call EXCEPT !.listeners = Tail(@)]
    /\ UNCHANGED <<cfg, now, pcVars, smVars, coreVars, liveVars, connected, tickVars,
                   snapVars, busVars, _listeners, delivered, stopVars, appVars>>

(* the end of _broadcast and time.sleep(dt) *)
BroadcastEnd ==
    /\ call.op = "_broadcast"
    /\ call.listeners = <<>>
    /\ now < MaxBroadcasts * cfg.ems.timestep_s
    /\ now' = now + cfg.ems.timestep_s
    /\ call' = NoCall
    /\ tick' = "decide"
    /\ control_decision' = None
    /\ UNCHANGED <<cfg, signal_state, smVars, coreVars, liveVars, connected, written,
                   retried, extVars>>

NextSSE ==
    \/ SseDecide
    \/ BusUnlock
    \/ BusApply
    \/ BroadcastStart
    \/ BroadcastPut
    \/ BroadcastEnd
    \/ SseRegister
    \/ SseUnregister
    \/ SseGet

SpecSSE == InitSSE /\ [][NextSSE]_vars

(* the items of a queue are in the order of their ticks *)
Ascending(q) == \A i, j \in 1..Len(q) : i < j => q[i] < q[j]

C18_Invariant ==
    /\ \A s \in Subscribers :
          /\ Len(queues[s]) <= MaxQueue
          /\ Ascending(queues[s])
          /\ (delivered[s].last # None /\ queues[s] # <<>>)
                => delivered[s].last[1] < Head(queues[s])
    /\ call.op = "_broadcast" =>
          /\ tick = "broadcast"
          /\ _state_lock = "none"
          /\ call.listeners # <<>> => ENABLED BroadcastPut
          /\ call.listeners = <<>> => now = MaxBroadcasts * cfg.ems.timestep_s
                                        \/ ENABLED BroadcastEnd

C18_Step ==
    /\ \A s \in Subscribers :
          (delivered'[s] # delivered[s] /\ delivered[s].last # None
                                        /\ delivered'[s].last # None)
              => delivered[s].last[1] < delivered'[s].last[1]
    /\ (call.op = "_broadcast" /\ call'.op = "_broadcast" /\ call' # call)
          => LET s == Head(call.listeners)
             IN  /\ queues'[s] = IF Len(queues[s]) = MaxQueue \/ delivered[s].closed
                                 THEN queues[s]
                                 ELSE Append(queues[s], now)
                 /\ \A o \in Subscribers \ {s} : queues'[o] = queues[o]
                 /\ call'.listeners = Tail(call.listeners)

(* C18: a subscriber queue never holds more than 10 snapshots; _broadcast  *)
(* runs after the state lock is released and each of its steps can always  *)
(* be taken, whatever the queues hold; a put on a full queue leaves that   *)
(* queue as it is and the loop goes on to the next subscriber, which gets  *)
(* the snapshot; what a subscriber dequeues is in the order of the ticks.  *)
C18_Subscribers == []C18_Invariant /\ [][C18_Step]_vars

(* the queue of subscriber a is full and has lost the snapshot of the last *)
(* tick, which subscriber b holds                                          *)
C18_Witness ==
    /\ call.op = "_broadcast"
    /\ call.listeners = <<>>
    /\ Len(queues["a"]) = MaxQueue
    /\ queues["a"][MaxQueue] < now
    /\ queues["b"] # <<>>
    /\ queues["b"][Len(queues["b"])] = now
    /\ delivered["b"].last # None

(***************************************************************************)
(* Start and stop: the tick thread, the Modbus poller, the MQTT client and *)
(* a caller of stop().  The poller's pass over the registers is one step   *)
(* here, and its time synchronisation flag is not followed.                *)
(***************************************************************************)

StopConfigs == {SiteBase(TRUE, FALSE, TRUE, TRUE)}

(* the variables a step of the life cycle leaves alone *)
restVars == <<cfg, now, pcVars, smVars, coreVars, liveVars, written, retried, call,
              snapVars, _lock, inflight, sseVars, appVars>>

(* after __init__: the poller thread runs, the tick thread does not *)
InitStop ==
    /\ cfg \in StopConfigs
    /\ now = 0
    /\ poller = PollerIdle
    /\ signal_state = SignalState
    /\ control_decision = None
    /\ selection_mode = cfg.strategies.selection_mode
    /\ manual_strategy = cfg.strategies.manual_strategy
    /\ current_strategy_name = None
    /\ state = PlantState
    /\ current_plan = None
    /\ last_optimization = None
    /\ _live_telemetry = FALSE
    /\ _last_telemetry = None
    /\ connected = FALSE
    /\ tick = "idle"
    /\ written = <<>>
    /\ retried = FALSE
    /\ call = NoCall
    /\ _state_lock = "none"
    /\ pending = NoUpdates
    /\ reader = NoRead
    /\ _lock = "none"
    /\ inflight = {}
    /\ _listeners = <<>>
    /\ queues = [s \in Subscribers |-> <<>>]
    /\ delivered = [s \in Subscribers |-> NotSubscribed]
    /\ _stop = FALSE
    /\ mqtt_client = "idle"
    /\ stopper = "idle"
    /\ telemetry_buffer = <<>>
    /\ _last_sim_telemetry = None
    /\ _telemetry_lock = "none"
    /\ sites = {}
    /\ app = NoApp

(* MQTTClient.disconnect: loop_stop and disconnect, when connected is set *)
mqtt_disconnect(client) == IF client = "connected" THEN "stopped" ELSE client

(* start(): the flag is cleared, the tick thread started and the MQTT      *)
(* connection initiated; connect() returns False when the broker refuses   *)
Start ==
    /\ tick = "idle"
    /\ stopper = "idle"
    /\ _stop' = FALSE
    /\ tick' = "check"
    /\ \E ok \in BOOLEAN :
          mqtt_client' = IF cfg.mqtt.enabled /\ ok THEN "connecting" ELSE mqtt_client
    /\ UNCHANGED <<restVars, connected, poller, stopper>>

(* _on_connect with rc == 0, on the MQTT network thread *)
MqttOnConnect ==
    /\ mqtt_client = "connecting"
    /\ mqtt_client' = "connected"
    /\ UNCHANGED <<restVars, connected, tick, poller, _stop, stopper>>

(* _on_disconnect, on the MQTT network thread, which then reconnects *)
MqttOnDisconnect ==
    /\ mqtt_client = "connected"
    /\ mqtt_client' = "connecting"
    /\ UNCHANGED <<restVars, connected, tick, poller, _stop, stopper>>

(* _loop: while not self._stop.is_set() *)
LoopCheck ==
    /\ tick = "check"
    /\ tick' = IF _stop THEN "terminated" ELSE "decide"
    /\ UNCHANGED <<restVars, connected, poller, stopVars>>

(* _loop: self.decide(), which returns or raises *)
LoopDecide ==
    /\ tick = "decide"
    /\ \E raised \in BOOLEAN : tick' = IF raised THEN "raised" ELSE "broadcast"
    /\ UNCHANGED <<restVars, connected, poller, stopVars>>

(* _loop: an exception of the body leaves the loop *)
LoopRaise ==
    /\ tick = "raised"
    /\ tick' = "terminated"
    /\ UNCHANGED <<restVars, connected, poller, stopVars>>

(* _loop: self._broadcast(), which catches what a queue raises *)
LoopBroadcast ==
    /\ tick = "broadcast"
    /\ tick' = "sleep"
    /\ UNCHANGED <<restVars, connected, poller, stopVars>>

(* _loop: time.sleep(dt) *)
LoopSleep ==
    /\ tick = "sleep"
    /\ tick' = "check"
    /\ UNCHANGED <<restVars, connected, poller, stopVars>>

(* _modbus_poll_loop: while not self._stop.is_set() *)
PollCheck ==
    /\ poller.at = "head"
    /\ poller' = [poller EXCEPT !.at = IF _stop THEN "done" ELSE "body"]
    /\ UNCHANGED <<restVars, connected, tick, stopVars>>

(* _modbus_poll_loop: if not self.modbus_client.connected *)
PollBody ==
    /\ poller.at = "body"
    /\ poller' = [poller EXCEPT !.at = IF connected THEN "poll" ELSE "connect"]
    /\ UNCHANGED <<restVars, connected, tick, stopVars>>

(* _modbus_poll_loop: connect(), then the pass or the short sleep *)
PollReconnect ==
    /\ poller.at = "connect"
    /\ \E ok \in BOOLEAN :
          /\ connected' = ok
          /\ poller' = [poller EXCEPT !.at = IF ok THEN "poll" ELSE "sleep"]
    /\ UNCHANGED <<restVars, tick, stopVars>>

(* _modbus_poll_loop: sync_time, read_bess_status and the handler, which   *)
(* return or raise                                                         *)
PollPass ==
    /\ poller.at = "poll"
    /\ \E raised \in BOOLEAN :
          poller' = [poller EXCEPT !.at = IF raised THEN "error" ELSE "sleep"]
    /\ UNCHANGED <<restVars, connected, tick, stopVars>>

(* stop(): self._stop.set() *)
StopSet ==
    /\ stopper = "idle"
    /\ tick # "idle"
    /\ _stop' = TRUE
    /\ stopper' = "mqtt"
    /\ UNCHANGED <<restVars, connected, tick, poller, mqtt_client>>

(* stop(): self.mqtt_client.disconnect() *)
StopMqtt ==
    /\ stopper = "mqtt"
    /\ mqtt_client' = IF cfg.mqtt.enabled THEN mqtt_disconnect(mqtt_client)
                      ELSE mqtt_client
    /\ stopper' = "modbus"
    /\ UNCHANGED <<restVars, connected, tick, poller, _stop>>

(* stop(): self.modbus_client.disconnect() *)
StopModbus ==
    /\ stopper = "modbus"
    /\ connected' = FALSE
    /\ stopper' = "join"
    /\ UNCHANGED <<restVars, tick, poller, _stop, mqtt_client>>

(* stop(): join(timeout=5) returns when the poller has ended or the time   *)
(* is up                                                                   *)
StopJoin ==
    /\ stopper = "join"
    /\ stopper' = "done"
    /\ UNCHANGED <<restVars, connected, tick, poller, _stop, mqtt_client>>

NextStop ==
    \/ Start
    \/ MqttOnConnect
    \/ MqttOnDisconnect
    \/ LoopCheck
    \/ LoopDecide
    \/ LoopRaise
    \/ LoopBroadcast
    \/ LoopSleep
    \/ PollCheck
    \/ PollBody
    \/ PollReconnect
    \/ PollPass
    \/ PollError
    \/ PollSleep
    \/ StopSet
    \/ StopMqtt
    \/ StopModbus
    \/ StopJoin

SpecStop == InitStop /\ [][NextStop]_vars

(* stop() has returned and both threads of the site have ended *)
ThreadsEnded == stopper = "done" /\ tick = "terminated" /\ poller.at = "done"

C19_Invariant ==
    /\ ThreadsEnded => ~connected
    /\ stopper = "done" => mqtt_client # "connected"

C19_Step ==
    /\ (_stop /\ tick = "check") => tick' # "decide"
    /\ tick = "terminated" => tick' = "terminated"
    /\ poller.at = "done" => poller'.at = "done"
    /\ ThreadsEnded => ~connected'

(* C19: after stop() the tick loop runs no tick once it has checked the    *)
(* flag, and a thread that has ended stays so; when stop() has returned    *)
(* and the tick thread and the poller have both ended, the Modbus          *)
(* connection is closed and stays closed; when stop() has returned the     *)
(* MQTT client is not connected.                                           *)
C19_Stopped == []C19_Invariant /\ [][C19_Step]_vars

(* C20: the tick loop ends only when the site is stopped: a tick body that *)
(* raises is followed by the sleep and the next tick.                      *)
C20_LoopSurvives == [](tick = "terminated" => _stop) /\ [][tick = "raised" => tick' = "sleep"]_vars

(***************************************************************************)
(* The multi-site supervisor: create_app builds a MultiSiteManager, whose  *)
(* constructor builds and starts the configured sites in their order.      *)
(***************************************************************************)

(* everything that belongs to one site's controller *)
siteVars == <<now, pcVars, smVars, coreVars, liveVars, connected, tickVars, snapVars,
              busVars, sseVars, stopVars>>

MaxSites == 3

(* the 'sites' section: per site id, whether EmsCore(full_config) raises   *)
(* for it, or its start(), or neither                                      *)
SiteLists == [1..MaxSites -> [raises : {"nothing", "EmsCore", "start"}]]

MSConfigs == {[sites |-> s] @@ SiteBase(TRUE, FALSE, FALSE, FALSE) : s \in SiteLists}

InitMS ==
    /\ cfg \in MSConfigs
    /\ now = 0
    /\ Constructed

(* _initialize_site: the site is built, started and entered into           *)
(* self.sites; an exception is logged and raised again                     *)
_initialize_site(started, site_id, raises) == [raised |-> raises # "nothing", sites |-> IF raises # "nothing" THEN started ELSE started \cup {site_id}]

(* MultiSiteManager.__init__: one pass of the loop over the sites; an      *)
(* exception leaves the constructor, and create_app falls back to a single *)
(* EmsCore built from the global configuration                             *)
InitializeSite ==
    /\ app.ems = "none"
    /\ app.at < Len(cfg.sites)
    /\ LET site_id == app.at + 1
           done == _initialize_site(sites, site_id, cfg.sites[site_id].raises)
       IN  /\ sites' = done.sites
           /\ app' = IF done.raised THEN [app EXCEPT !.ems = "single"]
                     ELSE [app EXCEPT !.at = site_id]
    /\ UNCHANGED <<cfg, siteVars, call, telemetry_buffer, _last_sim_telemetry, _telemetry_lock>>

(* create_app: the constructor has returned, app.ems is the manager *)
ManagerReady ==
    /\ app.ems = "none"
    /\ app.at = Len(cfg.sites)
    /\ app' = [app EXCEPT !.ems = "multi"]
    /\ UNCHANGED <<cfg, siteVars, call, telemetry_buffer, _last_sim_telemetry, _telemetry_lock, sites>>

(* what app.ems knows of: the manager's sites, or nothing of them when     *)
(* app.ems is the single EmsCore                                           *)
Retrievable == IF app.ems = "multi" THEN sites ELSE {}

(* get_site(site_id) on app.ems *)
GetSite ==
    /\ app.ems # "none"
    /\ call = NoCall
    /\ \E site_id \in 1..Len(cfg.sites) :
          call' = [op |-> "get_site", site_id |-> site_id,
                   result |-> IF site_id \in Retrievable THEN Some(site_id) ELSE None]
    /\ UNCHANGED <<cfg, siteVars, appVars>>

(* list_sites() on app.ems *)
ListSites ==
    /\ app.ems # "none"
    /\ call = NoCall
    /\ call' = [op |-> "list_sites", result |-> Retrievable]
    /\ UNCHANGED <<cfg, siteVars, appVars>>

NextMS ==
    \/ InitializeSite
    \/ ManagerReady
    \/ GetSite
    \/ ListSites
    \/ Return

SpecMS == InitMS /\ [][NextMS]_vars

(* the configured sites whose construction and start do not raise *)
Sound == {i \in 1..Len(cfg.sites) : cfg.sites[i].raises = "nothing"}

(* C21: when the application is up, every configured site without a       *)
(* configuration error has been constructed and started and is what        *)
(* get_site returns for its id and one of the sites list_sites returns,    *)
(* whether or not another site failed.                                     *)
C21_SiteIsolation == app.ems # "none" => Sound \subseteq sites /\ (call.op = "get_site" /\ call.site_id \in Sound => call.result = Some(call.site_id)) /\ (call.op = "list_sites" => Sound \subseteq call.result)

(***************************************************************************)
(* The Modbus client's register access (modbus_client.py).  Values, scales *)
(* and offsets are in tenths; a device is known by the words it holds at a *)
(* register's address and at the one after it.  The cases are kept below   *)
(* 2^31, so an unsigned pair of words has a high word below 0x8000.        *)
(***************************************************************************)

(* a register definition as RegisterDefinition.to_dict() gives it *)
Definition(function, data_type, signed, scale, offset) ==
    [address |-> 40010, function |-> function,
     count |-> IF data_type \in {"uint32", "int32"} THEN 2 ELSE 1,
     data_type |-> data_type, signed |-> signed, scale |-> scale, offset |-> offset,
     zero_based |-> FALSE]

(* config.registers: a register is named here by what makes it up *)
RegisterNames ==
    {<<3, dt, sg, sc, of>> : dt \in {"uint16", "int16", "uint32", "int32"},
                             sg \in BOOLEAN, sc \in {1, 10, -10}, of \in {0, 5}}
    \cup {<<4, "uint16", FALSE, 10, 0>>, <<2, "uint16", FALSE, 10, 0>>}

(* a name config.registers does not hold *)
UnknownNames == {<<3, "uint16", FALSE, 10, 7>>}

(* Mutant: a name that is not configured gets the definition of a plain    *)
(* holding register.                                                       *)
_clone_definition_default(register_name) == Some(Definition(register_name[1], register_name[2], register_name[3], register_name[4], register_name[5]))

_clone_definition(register_name) ==
    IF register_name \in RegisterNames
    THEN Some(Definition(register_name[1], register_name[2], register_name[3],
                         register_name[4], register_name[5]))
    ELSE None

(* Mutant: without zero_based every address is taken as one-based. *)
_normalize_address_one_based(address, function_code, zero_based) == IF zero_based THEN address ELSE Max(address - 1, 0)

_normalize_address(address, function_code, zero_based) ==
    IF zero_based THEN address
    ELSE IF function_code = 3 /\ address >= 40001 THEN address - 40001
    ELSE IF function_code = 4 /\ address >= 30001 THEN address - 30001
    ELSE IF function_code = 2 /\ address >= 10001 THEN address - 10001
    ELSE Max(address - 1, 0)

(* words: one or two words, the high one first *)
_combine_words(words, signed) ==
    IF Len(words) = 1
    THEN IF signed /\ words[1] >= 32768 THEN words[1] - 65536 ELSE words[1]
    ELSE IF signed /\ words[1] >= 32768
    THEN (words[1] - 65536) * 65536 + words[2]
    ELSE words[1] * 65536 + words[2]

IsSigned(definition) == definition.signed \/ definition.data_type \in {"int16", "int32"}

_decode_value(definition, raw) ==
    LET value == IF definition.data_type \in {"uint32", "int32", "float32"}
                    \/ definition.count > 1
                 THEN _combine_words(SubSeq(raw, 1, definition.count), IsSigned(definition))
                 ELSE IF IsSigned(definition) /\ raw[1] >= 32768 THEN raw[1] - 65536
                 ELSE raw[1]
    IN  value * definition.scale + definition.offset

(* write_holding_register: int(round((float(value) - offset) / scale)) *)
value_to_write(definition, value) ==
    IF definition.scale # 0 THEN PyRound(value - definition.offset, definition.scale)
    ELSE PyRound(value, 10)

(* client.write_register of the Modbus library: one word goes out; a value *)
(* that is no 16-bit word is refused with an exception, or goes out modulo *)
(* 2^16, as the library has it                                             *)
wire_word(value, wraps) ==
    IF value \in 0..65535 THEN Some(value)
    ELSE IF wraps THEN Some(value % 65536) ELSE None

(* write_register(register_name, value): the result, the request sent and  *)
(* the words the device holds afterwards at the register's address         *)
write_register(is_connected, register_name, value, held, wraps, answer_ok) ==
    LET definition == _clone_definition(register_name)
        refused    == [result |-> FALSE, sent |-> None, held |-> held]
    IN  IF ~is_connected THEN refused
        ELSE IF definition = None THEN refused
        ELSE IF definition[1].function # 3 THEN refused
        ELSE LET word == wire_word(value_to_write(definition[1], value), wraps)
                 at   == _normalize_address(definition[1].address, 3,
                                            definition[1].zero_based)
             IN  IF word = None THEN refused
                 ELSE IF ~answer_ok
                 THEN [result |-> FALSE, sent |-> Some(<<at, word[1]>>), held |-> held]
                 ELSE [result |-> TRUE, sent |-> Some(<<at, word[1]>>),
                       held |-> <<word[1], held[2]>>]

(* read_register(register_name) on a device holding these words *)
read_register(is_connected, register_name, held) ==
    LET definition == _clone_definition(register_name)
    IN  IF ~is_connected \/ definition = None THEN None
        ELSE Some(_decode_value(definition[1], SubSeq(held, 1, definition[1].count)))

RegConfigs == {SiteBase(TRUE, FALSE, TRUE, FALSE)}

InitReg ==
    /\ cfg \in RegConfigs
    /\ now = 0
    /\ Constructed

(* raw register values to aim at: for a register of one word small ones,   *)
(* the ends of the 16-bit ranges and values beyond them; for a register of *)
(* two words values whose word on the wire stays a small high word         *)
RawSamples(register_name) ==
    IF register_name[2] \in {"uint16", "int16"}
    THEN {-70000, -32768, -1, 0, 1, 2, 32767, 32768, 65535, 70000}
    ELSE IF register_name[3] \/ register_name[2] = "int32"
    THEN {-5, 0, 1, 2, 100, 3000}
    ELSE {5, 100, 3000}

(* what the device holds before the write: the word at the address and the *)
(* one after it                                                            *)
HeldSamples == {<<0, 0>>, <<3, 7>>}

(* a caller writes a register and reads it back *)
WriteAndRead ==
    /\ call = NoCall
    /\ \E register_name \in RegisterNames \cup UnknownNames,
          part \in {-3, 0, 5}, held \in HeldSamples, wraps \in BOOLEAN,
          answer_ok \in BOOLEAN :
        \E raw \in RawSamples(register_name) :
          LET value   == raw * register_name[4] + register_name[5] + part
              outcome == write_register(connected, register_name, value, held, wraps,
                                        answer_ok)
          IN  call' = [op |-> "write_register", register_name |-> register_name,
                       value |-> value, connected |-> connected,
                       result |-> outcome.result, sent |-> outcome.sent,
                       read |-> read_register(connected, register_name, outcome.held)]
    /\ UNCHANGED <<cfg, siteVars, appVars>>

AddressSamples ==
    {0, 1, 2, 9, 10000, 10001, 10002, 30000, 30001, 30002, 40000, 40001, 40002, 40010,
     65535}

(* _normalize_address on its own *)
NormalizeAddress ==
    /\ call = NoCall
    /\ \E address \in AddressSamples, function_code \in 1..4, zero_based \in BOOLEAN :
          call' = [op |-> "_normalize_address", address |-> address,
                   function_code |-> function_code, zero_based |-> zero_based,
                   result |-> _normalize_address(address, function_code, zero_based)]
    /\ UNCHANGED <<cfg, siteVars, appVars>>

NextReg ==
    \/ WriteAndRead
    \/ NormalizeAddress
    \/ ModbusConnect
    \/ ModbusDisconnect
    \/ Return

SpecReg == InitReg /\ [][NextReg]_vars

(* the raw values a register of this definition can hold *)
Representable(definition, raw) ==
    LET high == IF definition.count = 2 THEN raw \div 65536 ELSE raw
    IN  IF IsSigned(definition) THEN high \in -32768..32767
        ELSE IF definition.count = 2 THEN high \in 0..32767 ELSE high \in 0..65535

(* a write of a representable value to a function 3 register has gone out  *)
(* and the register was read back                                          *)
RoundTrip ==
    /\ call.op = "write_register"
    /\ call.result
    /\ Representable(_clone_definition(call.register_name)[1],
                     value_to_write(_clone_definition(call.register_name)[1], call.value))

(* C22: the value read back after a successful write of a representable    *)
(* value to a function 3 register is within one step of the scale of the   *)
(* value written.                                                          *)
C22_RoundTrip == RoundTrip => Abs(call.read[1] - call.value) <= Abs(call.register_name[4])

(* the base of the address range of a function code, where it has one *)
RangeBase(function_code) ==
    IF function_code = 3 THEN 40001
    ELSE IF function_code = 4 THEN 30001
    ELSE IF function_code = 2 THEN 10001
    ELSE -1

(* C23: with zero_based the address comes back as it is; without it an     *)
(* address at or above 40001 (function 3), 30001 (function 4) or 10001     *)
(* (function 2) comes back less that base, every other address comes back  *)
(* as max(address - 1, 0); the result is never negative.                   *)
C23_Normalized == call.op = "_normalize_address" => /\ call.result >= 0 /\ call.result = (IF call.zero_based THEN call.address ELSE IF RangeBase(call.function_code) >= 0 /\ call.address >= RangeBase(call.function_code) THEN call.address - RangeBase(call.function_code) ELSE Max(call.address - 1, 0))

(* 40001 under function 3 without zero_based has been normalised to 0 *)
C23_Witness == call.op = "_normalize_address" /\ call.address = 40001 /\ call.function_code = 3 /\ ~call.zero_based /\ call.result = 0

(* the written register is not configured, or not a holding register, or   *)
(* the client is not connected                                             *)
NotWritable ==
    \/ ~call.connected
    \/ call.register_name \notin RegisterNames
    \/ call.register_name[1] # 3

(* C24: write_register on an unknown name, on a register whose function is *)
(* not 3, or without a connection returns False and sends no request.      *)
C24_WriteRefused == (call.op = "write_register" /\ NotWritable) => (~call.result /\ call.sent = None)

(* a connected client was asked to write a function 4 register *)
C24_Witness == call.op = "write_register" /\ call.connected /\ call.register_name[1] = 4 /\ ~call.result /\ call.sent = None


(***************************************************************************)
(* Planning: the optimizer and the four strategies as pure functions of a  *)
(* forecast and a starting state of charge.  Power is in W, state of       *)
(* charge in thousandths of a percent, energy capacity in kWh, one step is *)
(* one hour.  A series is a sequence of <<timestamp, value>>.  The inputs  *)
(* are chosen so that every quotient the code computes is a whole number   *)
(* of these units.                                                         *)
(***************************************************************************)

(* the longest forecast *)
MaxHorizon == 4

(* the constraints the strategies are given: limits 10 % and 90 %, 20 kW,  *)
(* 200 kWh, charging without loss, discharging with efficiency 4/5         *)
PlanConstraints ==
    [power_charge_max_w |-> 20000, power_discharge_max_w |-> 20000,
     energy_capacity_kwh |-> 200, soc_min |-> 10000, soc_max |-> 90000,
     efficiency_charge |-> <<1, 1>>, efficiency_discharge |-> <<4, 5>>]

(* BaseStrategy.validate_forecast_data: every required series is there and *)
(* not empty                                                               *)
validate_forecast_data(required_keys, forecast_data) ==
    \A key \in required_keys : forecast_data[key] # <<>>

(* the result of a strategy without a schedule *)
_create_empty_result == [schedule |-> <<>>, soc_schedule |-> None]

(* sorted(values) *)
RECURSIVE sorted(_)
sorted(values) ==
    IF values = <<>> THEN <<>>
    ELSE LET m == CHOOSE i \in 1..Len(values) :
                      \A j \in 1..Len(values) : values[i] <= values[j]
         IN  <<values[m]>> \o
             sorted([i \in 1..(Len(values) - 1) |->
                        IF i < m THEN values[i] ELSE values[i + 1]])

(* Mutant: the state of charge is not clamped. *)
clamp_soc_off(soc, constr) == soc

(* max(soc_min, min(soc_max, soc)) at the end of a step of the heuristic *)
clamp_soc(soc, constr) == Max(constr.soc_min, Min(constr.soc_max, soc))

(* one step of the heuristic: the net power and the state of charge after  *)
(* it                                                                      *)
fallback_step(price, soc, low_threshold, high_threshold, constr) ==
    LET E_capacity == constr.energy_capacity_kwh
        eta_c == constr.efficiency_charge
        eta_d == constr.efficiency_discharge
        p_charge == Min(constr.power_charge_max_w,
                        ((constr.soc_max - soc) * E_capacity) \div 100)
        p_discharge == Min(constr.power_discharge_max_w,
                           ((soc - constr.soc_min) * E_capacity) \div 100)
        moved == IF price <= low_threshold /\ soc < constr.soc_max
                 THEN [p_net |-> -p_charge,
                       soc |-> soc + (p_charge * 100 * eta_c[1]) \div (E_capacity * eta_c[2])]
                 ELSE IF price >= high_threshold /\ soc > constr.soc_min
                 THEN [p_net |-> p_discharge,
                       soc |-> soc - (p_discharge * 100 * eta_d[2]) \div (E_capacity * eta_d[1])]
                 ELSE [p_net |-> 0, soc |-> soc]
    IN  [p_net |-> moved.p_net, soc |-> clamp_soc(moved.soc, constr)]

RECURSIVE fallback_loop(_, _, _, _, _, _, _)
fallback_loop(prices, i, soc, low_threshold, high_threshold, constr, acc) ==
    IF i > Len(prices) THEN acc
    ELSE LET step == fallback_step(prices[i][2], soc, low_threshold, high_threshold,
                                   constr)
         IN  fallback_loop(prices, i + 1, step.soc, low_threshold, high_threshold, constr,
                 [schedule |-> Append(acc.schedule, <<prices[i][1], step.p_net>>),
                  soc_schedule |-> Append(acc.soc_schedule, <<prices[i][1], step.soc>>)])

(* LinearProgrammingOptimizer._fallback_arbitrage: charge at or below the  *)
(* lower price quartile, discharge at or above the upper one               *)
_fallback_arbitrage(prices, current_soc, constr) ==
    IF prices = <<>>
    THEN [schedule |-> <<>>, soc_schedule |-> <<>>, solver |-> "fallback"]
    ELSE LET prices_sorted == sorted([i \in 1..Len(prices) |-> prices[i][2]])
             n    == Len(prices_sorted)
             low  == IF n >= 4 THEN prices_sorted[n \div 4 + 1] ELSE prices_sorted[1]
             high == IF n >= 4 THEN prices_sorted[(3 * n) \div 4 + 1] ELSE prices_sorted[n]
         IN  fallback_loop(prices, 1, current_soc, low, high, constr,
                           [schedule |-> <<>>, soc_schedule |-> <<>>]) @@
             [solver |-> "fallback"]

(* LinearProgrammingOptimizer._cvxpy_arbitrage.  solver is what the linear *)
(* program did: "raises", "infeasible" (a status other than optimal) or    *)
(* "optimal".  With an optimal solution the trajectory has one value more  *)
(* than there are timestamps, and pairing them raises.  Result: Some(r),   *)
(* or None when the call raised.                                           *)
_cvxpy_arbitrage(prices, current_soc, constr, solver) ==
    IF prices = <<>> THEN Some(_fallback_arbitrage(prices, current_soc, constr))
    ELSE IF solver = "raises" THEN None
    ELSE IF solver = "infeasible" THEN Some(_fallback_arbitrage(prices, current_soc, constr))
    ELSE None

(* what the linear program can do with a starting state of charge: outside *)
(* the limits it has no solution                                           *)
Solvers(current_soc, constr) ==
    IF current_soc < constr.soc_min \/ current_soc > constr.soc_max
    THEN {"unavailable", "raises", "infeasible"}
    ELSE {"unavailable", "raises", "infeasible", "optimal"}

(* ArbitrageStrategy.optimize; solver "unavailable": CVXPY is not there *)
arbitrage_optimize(current_soc, forecast_data, constr, solver) ==
    IF ~validate_forecast_data({"prices"}, forecast_data) THEN _create_empty_result
    ELSE LET fallback   == Some(_fallback_arbitrage(forecast_data.prices, current_soc, constr))
             opt_result == IF solver = "unavailable" THEN fallback
                           ELSE optimize_arbitrage(
                                    _cvxpy_arbitrage(forecast_data.prices, current_soc,
                                                     constr, solver), fallback)
         IN  [schedule |-> opt_result[1].schedule,
              soc_schedule |-> Some(opt_result[1].soc_schedule)]

(* LoadBalancingStrategy._moving_average with edge padding of window \div 2 *)
_moving_average(data, window) ==
    IF Len(data) < window THEN data
    ELSE LET half == window \div 2
             padded(k) == data[Max(1, Min(Len(data), k - half))]
             RECURSIVE sum(_, _)
             sum(k, m) == IF m = 0 THEN 0 ELSE padded(k) + sum(k + 1, m - 1)
         IN  [i \in 1..Len(data) |-> sum(i, window) \div window]

(* the smoothing window of the load balancing strategy *)
smoothing_window == 3

(* one step of load balancing: the power and the state of charge after it *)
balancing_step(p_raw, soc, constr) ==
    LET E_capacity == constr.energy_capacity_kwh
        clipped == Max(-constr.power_charge_max_w, Min(constr.power_discharge_max_w, p_raw))
        p_bess  == IF clipped < 0
                   THEN IF soc >= constr.soc_max THEN 0
                        ELSE Max(clipped, -(((constr.soc_max - soc) * E_capacity) \div 100))
                   ELSE IF clipped > 0
                   THEN IF soc <= constr.soc_min THEN 0
                        ELSE Min(clipped, ((soc - constr.soc_min) * E_capacity) \div 100)
                   ELSE 0
        moved   == IF p_bess < 0 THEN soc + (Abs(p_bess) * 100) \div E_capacity
                   ELSE IF p_bess > 0 THEN soc - (p_bess * 100) \div E_capacity
                   ELSE soc
    IN  [p_bess |-> p_bess, soc |-> Max(constr.soc_min, Min(constr.soc_max, moved))]

RECURSIVE balancing_loop(_, _, _, _, _, _)
balancing_loop(timestamps, bess_power_raw, i, soc, constr, acc) ==
    IF i > Len(timestamps) THEN acc
    ELSE LET step == balancing_step(bess_power_raw[i], soc, constr)
         IN  balancing_loop(timestamps, bess_power_raw, i + 1, step.soc, constr,
                 [schedule |-> Append(acc.schedule, <<timestamps[i], step.p_bess>>),
                  soc_schedule |-> Append(acc.soc_schedule, <<timestamps[i], step.soc>>)])

(* LoadBalancingStrategy.optimize *)
load_balancing_optimize(current_soc, forecast_data, constr) ==
    IF ~validate_forecast_data({"load"}, forecast_data) THEN _create_empty_result
    ELSE LET load_forecast == forecast_data.load
             pv_forecast   == forecast_data.pv
             n          == Len(load_forecast)
             timestamps == [i \in 1..n |-> load_forecast[i][1]]
             net_load   == [i \in 1..n |->
                               load_forecast[i][2] -
                               (IF pv_forecast # <<>> /\ Len(pv_forecast) = n
                                THEN pv_forecast[i][2] ELSE 0)]
             target_load == _moving_average(net_load, smoothing_window)
             raw    == [i \in 1..n |-> net_load[i] - target_load[i]]
             result == balancing_loop(timestamps, raw, 1, current_soc, constr,
                                      [schedule |-> <<>>, soc_schedule |-> <<>>])
         IN  [schedule |-> result.schedule, soc_schedule |-> Some(result.soc_schedule)]

(* SelfConsumptionStrategy.optimize: one step *)
self_consumption_step(pv, load, soc, constr) ==
    LET net == pv - load
        moved == IF net > 0 /\ soc < constr.soc_max
                 THEN [p_bess |-> -Min(net, constr.power_charge_max_w), soc |-> soc + 1000]
                 ELSE IF net < 0 /\ soc > constr.soc_min
                 THEN [p_bess |-> Min(Abs(net), constr.power_discharge_max_w),
                       soc |-> soc - 1000]
                 ELSE [p_bess |-> 0, soc |-> soc]
    IN  [p_bess |-> moved.p_bess,
         soc |-> Max(constr.soc_min, Min(constr.soc_max, moved.soc))]

RECURSIVE self_consumption_loop(_, _, _, _, _, _, _)
self_consumption_loop(pv_forecast, load_forecast, n, i, soc, constr, schedule) ==
    IF i > n THEN schedule
    ELSE LET step == self_consumption_step(pv_forecast[i][2], load_forecast[i][2], soc,
                                           constr)
         IN  self_consumption_loop(pv_forecast, load_forecast, n, i + 1, step.soc, constr,
                                   Append(schedule, <<pv_forecast[i][1], step.p_bess>>))

(* Mutant: the last step of the forecast is left out. *)
self_consumption_optimize_short(current_soc, forecast_data, constr) ==
    IF ~validate_forecast_data({"pv", "load"}, forecast_data) THEN _create_empty_result
    ELSE [schedule |-> self_consumption_loop(forecast_data.pv, forecast_data.load,
                           Min(Len(forecast_data.pv), Len(forecast_data.load)) - 1, 1,
                           current_soc, constr, <<>>),
          soc_schedule |-> None]

(* SelfConsumptionStrategy.optimize: the timestamps are those of the pv    *)
(* forecast; no trajectory of the state of charge is reported              *)
self_consumption_optimize(current_soc, forecast_data, constr) ==
    IF ~validate_forecast_data({"pv", "load"}, forecast_data) THEN _create_empty_result
    ELSE [schedule |-> self_consumption_loop(forecast_data.pv, forecast_data.load,
                           Min(Len(forecast_data.pv), Len(forecast_data.load)), 1,
                           current_soc, constr, <<>>),
          soc_schedule |-> None]

(* the percentile of the load above which the peak shaving strategy        *)
(* discharges                                                              *)
peak_threshold_percentile == 75

(* np.percentile(values, q) with linear interpolation *)
percentile(values, q) ==
    LET s    == sorted(values)
        pos  == (Len(s) - 1) * q
        lo   == pos \div 100 + 1
        frac == pos % 100
    IN  IF frac = 0 THEN s[lo] ELSE s[lo] + (frac * (s[lo + 1] - s[lo])) \div 100

(* a step that discharges above the threshold whatever the state of charge *)
peak_shaving_step_any_soc(load, soc, peak_threshold, constr) ==
    LET moved == IF load > peak_threshold
                 THEN [p_net |-> Min(constr.power_discharge_max_w, load - peak_threshold),
                       soc |-> soc - 2000]
                 ELSE IF 10 * load < 7 * peak_threshold /\ soc < constr.soc_max
                 THEN [p_net |-> -Min(constr.power_charge_max_w, peak_threshold \div 2),
                       soc |-> soc + 2000]
                 ELSE [p_net |-> 0, soc |-> soc]
    IN  [p_net |-> moved.p_net,
         soc |-> Max(constr.soc_min, Min(constr.soc_max, moved.soc))]

(* PeakShavingStrategy.optimize: one step *)
peak_shaving_step(load, soc, peak_threshold, constr) ==
    LET moved == IF load > peak_threshold /\ soc > constr.soc_min
                 THEN [p_net |-> Min(constr.power_discharge_max_w, load - peak_threshold),
                       soc |-> soc - 2000]
                 ELSE IF 10 * load < 7 * peak_threshold /\ soc < constr.soc_max
                 THEN [p_net |-> -Min(constr.power_charge_max_w, peak_threshold \div 2),
                       soc |-> soc + 2000]
                 ELSE [p_net |-> 0, soc |-> soc]
    IN  [p_net |-> moved.p_net,
         soc |-> Max(constr.soc_min, Min(constr.soc_max, moved.soc))]

RECURSIVE peak_shaving_loop(_, _, _, _, _, _)
peak_shaving_loop(load_forecast, i, soc, peak_threshold, constr, schedule) ==
    IF i > Len(load_forecast) THEN schedule
    ELSE LET step == peak_shaving_step(load_forecast[i][2], soc, peak_threshold, constr)
         IN  peak_shaving_loop(load_forecast, i + 1, step.soc, peak_threshold, constr,
                               Append(schedule, <<load_forecast[i][1], step.p_net>>))

(* PeakShavingStrategy.optimize: the timestamps are those of the load      *)
(* forecast; no trajectory of the state of charge is reported              *)
peak_shaving_optimize(current_soc, forecast_data, constr) ==
    IF ~validate_forecast_data({"load"}, forecast_data) THEN _create_empty_result
    ELSE LET load_values == [i \in 1..Len(forecast_data.load) |-> forecast_data.load[i][2]]
         IN  [schedule |-> peak_shaving_loop(forecast_data.load, 1, current_soc,
                               percentile(load_values, peak_threshold_percentile), constr,
                               <<>>),
              soc_schedule |-> None]

(* the strategy of that name applied to a forecast *)
strategy_optimize(strategy, current_soc, forecast_data, constr, solver) ==
    CASE strategy = "arbitrage" ->
             arbitrage_optimize(current_soc, forecast_data, constr, solver)
      [] strategy = "load_balancing" ->
             load_balancing_optimize(current_soc, forecast_data, constr)
      [] strategy = "self_consumption" ->
             self_consumption_optimize(current_soc, forecast_data, constr)
      [] strategy = "peak_shaving" ->
             peak_shaving_optimize(current_soc, forecast_data, constr)

(* the series of n values from a set, hourly from the second hour on *)
SeriesOf(values, n) ==
    {[i \in 1..n |-> <<3600 * (i + 1), v[i]>>] : v \in [1..n -> values]}

PriceValues == {20, 50, 80}
PvValues == {0, 24000}
LoadValues == {6000, 60000}

(* starting states of charge: below the lower limit, just above it, in the *)
(* middle, just below the upper limit, above it                            *)
SocSamples == {5000, 12000, 50000, 86000, 95000}

PlanConfigs == {SiteBase(TRUE, FALSE, FALSE, FALSE)}

InitPlan ==
    /\ cfg \in PlanConfigs
    /\ now = 0
    /\ Constructed

(* the arbitrage strategy over a price series; the other series have the   *)
(* same length and timestamps                                              *)
OptimizeArbitrage ==
    /\ call = NoCall
    /\ \E n \in 0..MaxHorizon, current_soc \in SocSamples :
       \E prices \in SeriesOf(PriceValues, n),
          solver \in Solvers(current_soc, PlanConstraints) :
          LET forecast_data == [prices |-> prices,
                                pv |-> [i \in 1..n |-> <<prices[i][1], 0>>],
                                load |-> [i \in 1..n |-> <<prices[i][1], 6000>>]]
          IN  call' = [op |-> "optimize", strategy |-> "arbitrage",
                       current_soc |-> current_soc, forecast_data |-> forecast_data,
                       result |-> strategy_optimize("arbitrage", current_soc,
                                      forecast_data, PlanConstraints, solver)]
    /\ UNCHANGED <<cfg, siteVars, appVars>>

(* one of the strategies that work on the pv and load series *)
OptimizeLoadBased(strategy) ==
    /\ call = NoCall
    /\ \E n \in 0..MaxHorizon, current_soc \in SocSamples :
       \E pv \in SeriesOf(PvValues, n),
          load \in SeriesOf(LoadValues, n) :
          LET forecast_data == [prices |-> [i \in 1..n |-> <<load[i][1], 50>>],
                                pv |-> pv, load |-> load]
          IN  call' = [op |-> "optimize", strategy |-> strategy,
                       current_soc |-> current_soc, forecast_data |-> forecast_data,
                       result |-> strategy_optimize(strategy, current_soc, forecast_data,
                                      PlanConstraints, "unavailable")]
    /\ UNCHANGED <<cfg, siteVars, appVars>>

OptimizeLoadBalancing == OptimizeLoadBased("load_balancing")

OptimizeSelfConsumption == OptimizeLoadBased("self_consumption")

(* the constraints PeakShavingStrategy.optimize falls back on: 100 kW in   *)
(* both directions, limits 10 % and 90 %                                   *)
default_constraints ==
    [PlanConstraints EXCEPT !.power_charge_max_w = 100000,
                            !.power_discharge_max_w = 100000]

(* a load of 10 kW with one hour of 50 kW, longer than the other forecasts *)
PeakLoad ==
    [i \in 1..6 |-> <<3600 * (i + 1), IF i = 4 THEN 50000 ELSE 10000>>]

(* peak shaving over the load forecasts, with the constraints of the site  *)
(* or the strategy's own                                                   *)
OptimizePeakShaving ==
    /\ call = NoCall
    /\ \E current_soc \in SocSamples \cup {70000},
          constr \in {PlanConstraints, default_constraints},
          load \in {PeakLoad} \cup UNION {SeriesOf(LoadValues, n) : n \in 0..MaxHorizon} :
          LET forecast_data == [prices |-> [i \in 1..Len(load) |-> <<load[i][1], 50>>],
                                pv |-> [i \in 1..Len(load) |-> <<load[i][1], 0>>],
                                load |-> load]
          IN  call' = [op |-> "optimize", strategy |-> "peak_shaving",
                       current_soc |-> current_soc, forecast_data |-> forecast_data,
                       constr |-> constr,
                       result |-> peak_shaving_optimize(current_soc, forecast_data,
                                                        constr)]
    /\ UNCHANGED <<cfg, siteVars, appVars>>

(* schedule entries for the look-up: two of them at the same time *)
SetpointEntries == {<<100, 1000>>, <<200, -2000>>, <<300, 3000>>, <<100, 4000>>}

(* the plans to look in: none, one without entries, and the schedules of   *)
(* up to three entries in any order                                        *)
SetpointPlans ==
    {None} \cup
    {Some([schedule |-> s, strategy_name |-> "Arbitrage"]) :
        s \in UNION {[1..n -> SetpointEntries] : n \in 0..3}}

(* before the first entry, on entries, half way between two, after the last *)
SetpointTimes == {0, 100, 149, 150, 151, 200, 250, 400}

(* decide takes the setpoint of this tick from the current plan *)
GetSetpoint ==
    /\ call = NoCall
    /\ \E plan \in SetpointPlans, t \in SetpointTimes :
          call' = [op |-> "_get_setpoint_from_plan", plan |-> plan, now |-> t,
                   result |-> _get_setpoint_from_plan(plan, t)]
    /\ UNCHANGED <<cfg, siteVars, appVars>>

(* rules for the dynamic mode: a window by day, one over midnight and an   *)
(* empty one, with limits inside and outside 0..100                        *)
DynamicRules ==
    {<<w[1], w[2], limit_pct>> :
        w \in {<<6 * 3600, 18 * 3600>>, <<22 * 3600, 6 * 3600>>, <<12 * 3600, 12 * 3600>>},
        limit_pct \in {-10, 30, 70, 150}}

FeedinDynamics ==
    {[FeedinDynamic EXCEPT !.rules = rules] :
        rules \in UNION {[1..n -> DynamicRules] : n \in 0..2}}

(* times around the ends of the windows, on two days *)
LimitTimes ==
    {0, 6 * 3600 - 1, 6 * 3600, 12 * 3600, 18 * 3600 - 1, 18 * 3600, 20 * 3600, 22 * 3600 - 1,
     22 * 3600, 86400 - 1, 86400 + 3 * 3600, 86400 + 18 * 3600}

(* FeedinLimitationManager.get_current_limit_pct in dynamic mode *)
GetCurrentLimit ==
    /\ call = NoCall
    /\ \E f \in FeedinDynamics, current_time \in LimitTimes :
          call' = [op |-> "get_current_limit_pct", f |-> f, current_time |-> current_time,
                   result |-> get_current_limit_pct(f, current_time)]
    /\ UNCHANGED <<cfg, siteVars, appVars>>

NextPlan ==
    \/ OptimizeArbitrage
    \/ OptimizeLoadBalancing
    \/ OptimizeSelfConsumption
    \/ OptimizePeakShaving
    \/ GetSetpoint
    \/ GetCurrentLimit
    \/ Return

SpecPlan == InitPlan /\ [][NextPlan]_vars

(* C25: every value of a state-of-charge trajectory that a strategy        *)
(* reports lies between the lower and the upper limit of the state of      *)
(* charge, whatever the forecast and the starting state of charge          *)
C25_SocWithinLimits ==
    (call.op = "optimize" /\ call.result.soc_schedule # None) =>
        \A i \in 1..Len(call.result.soc_schedule[1]) :
            /\ call.result.soc_schedule[1][i][2] >= PlanConstraints.soc_min
            /\ call.result.soc_schedule[1][i][2] <= PlanConstraints.soc_max

(* a trajectory that starts outside the limits and one whose discharge     *)
(* would have ended below the lower limit                                  *)
C25_Witness ==
    /\ call.op = "optimize"
    /\ call.result.soc_schedule # None
    /\ Len(call.result.soc_schedule[1]) = MaxHorizon
    /\ call.current_soc > PlanConstraints.soc_max
    /\ \E i \in 1..MaxHorizon : call.result.schedule[i][2] # 0


(* C26: for each of the four strategies, with price, pv and load series of *)
(* the same length N and the same timestamps, the schedule has N entries   *)
(* and its i-th timestamp is the i-th timestamp of the prices              *)
C26_ScheduleAligned ==
    call.op = "optimize" =>
        /\ Len(call.result.schedule) = Len(call.forecast_data.prices)
        /\ \A i \in 1..Len(call.result.schedule) :
               call.result.schedule[i][1] = call.forecast_data.prices[i][1]

(* a schedule of the longest horizon that charges in one step and          *)
(* discharges in another                                                   *)
C26_Witness ==
    /\ call.op = "optimize"
    /\ call.strategy = "self_consumption"
    /\ Len(call.result.schedule) = MaxHorizon
    /\ \E i, j \in 1..MaxHorizon :
           call.result.schedule[i][2] < 0 /\ call.result.schedule[j][2] > 0


(* C27: the requested power of a tick is the power of the schedule entry   *)
(* nearest in time to now, of equally near ones the one listed first, also *)
(* when now is before the first or after the last entry; it is 0 without a *)
(* plan or with an empty schedule                                          *)
C27_NearestEntry ==
    call.op = "_get_setpoint_from_plan" =>
        IF call.plan = None THEN call.result = 0
        ELSE IF Len(call.plan[1].schedule) = 0 THEN call.result = 0
        ELSE LET schedule == call.plan[1].schedule
                 far(i)   == IF schedule[i][1] >= call.now
                             THEN schedule[i][1] - call.now
                             ELSE call.now - schedule[i][1]
             IN  \E i \in 1..Len(schedule) :
                    /\ call.result = schedule[i][2]
                    /\ \A j \in 1..Len(schedule) : far(i) <= far(j)
                    /\ \A j \in 1..(i - 1) : far(i) < far(j)

(* now is half way between two entries and the later one is listed first *)
C27_Witness ==
    /\ call.op = "_get_setpoint_from_plan"
    /\ call.now = 150
    /\ call.plan = Some([schedule |-> << <<300, 3000>>, <<200, -2000>>, <<100, 1000>> >>,
                         strategy_name |-> "Arbitrage"])
    /\ call.result = -2000


(* C28: in dynamic mode the limit is that of the first rule, in the order  *)
(* of the configuration, whose window contains the time of day: a window   *)
(* with start <= end contains start <= t < end, one with start > end wraps *)
(* around midnight; without such a rule it is 100; it always lies in       *)
(* 0..100                                                                  *)
C28_FirstMatchingRule ==
    call.op = "get_current_limit_pct" =>
        LET rules == call.f.rules
            t     == call.current_time % 86400
            contains(i) == IF rules[i][1] <= rules[i][2]
                           THEN rules[i][1] <= t /\ t < rules[i][2]
                           ELSE t >= rules[i][1] \/ t < rules[i][2]
            matching == {i \in 1..Len(rules) : contains(i)}
        IN  /\ call.result \in 0..100
            /\ matching = {} => call.result = 100
            /\ \A i \in matching :
                   ((\A j \in matching : i <= j) /\ rules[i][3] \in 0..100)
                       => call.result = rules[i][3]

(* two rules contain the time, the first of them wraps around midnight *)
C28_Witness ==
    /\ call.op = "get_current_limit_pct"
    /\ call.current_time = 86400 + 3 * 3600
    /\ call.f.rules = << <<22 * 3600, 6 * 3600, 30>>, <<22 * 3600, 6 * 3600, 70>> >>
    /\ call.result = 30


(* one step of the poller as the loop prescribes it *)
C29_Step ==
    /\ (poller.at = "head" /\ poller'.at # "head") =>
           poller'.at = (IF ~connected THEN "connect"
                         ELSE IF ~poller.synced THEN "rtc" ELSE "read")
    /\ (poller.at = "connect" /\ poller'.at # "connect" /\ ~connected') =>
           /\ ~poller'.synced
           /\ poller'.at = "sleep"
           /\ poller'.wait = Min(poll_interval(cfg.modbus), 10)
    /\ (poller.at = "error" /\ poller'.at # "error") =>
           /\ ~connected'
           /\ ~poller'.synced
           /\ poller'.at = "sleep"
           /\ poller'.wait = Min(poll_interval(cfg.modbus), 10)
    /\ (~poller.synced /\ poller'.synced) => (poller.at = "rtc" /\ connected)
    /\ (poller.synced /\ poller'.at = "rtc") => poller.at = "rtc"

MaxTelemetry == 3

(* the latest time of a tick *)
MaxTelTime == 32

(* seconds between two simulation records *)
SimTelemetryPeriod == 10

(* Mutant: a full buffer drops the record that arrives. *)
deque_append_drop(buffer, item, maxlen) ==
    IF Len(buffer) >= maxlen THEN buffer ELSE Append(buffer, item)

(* deque(maxlen).append: a full deque discards its oldest item *)
deque_append(buffer, item, maxlen) ==
    IF Len(buffer) >= maxlen THEN Append(Tail(buffer), item) ELSE Append(buffer, item)

(* _record_telemetry: the snapshot goes to the end of the buffer *)
_record_telemetry(buffer, source, timestamp) ==
    deque_append(buffer, [telemetry_source |-> source, timestamp |-> timestamp],
                 MaxTelemetry)

(* Mutant: a simulation record with every tick. *)
record_simulation_always(live, last_sim, t) == ~live

(* decide(): whether this tick records a simulation snapshot *)
record_simulation(live, last_sim, t) ==
    ~live /\ (last_sim = None \/ t - last_sim[1] >= SimTelemetryPeriod)

(* a tick every 4 s *)
TelConfigs ==
    {[SiteBase(TRUE, FALSE, TRUE, TRUE) EXCEPT !.ems.timestep_s = 4]}

InitTel ==
    /\ cfg \in TelConfigs
    /\ now = 0
    /\ Constructed

(* decide(): live telemetry goes stale after 120 s; without live telemetry *)
(* a simulation record is due when none was made in the last 10 s          *)
TelDecide ==
    /\ tick = "decide"
    /\ LET stale == telemetry_stale(_live_telemetry, _last_telemetry, now)
           live  == _live_telemetry /\ ~stale
           due   == record_simulation(live, _last_sim_telemetry, now)
       IN  /\ _live_telemetry' = live
           /\ _last_sim_telemetry' = IF due THEN Some(now) ELSE _last_sim_telemetry
           /\ tick' = IF due THEN "record" ELSE "sleep"
    /\ UNCHANGED <<cfg, now, pcVars, smVars, coreVars, _last_telemetry, connected, written,
                   retried, call, snapVars, busVars, sseVars, stopVars, telemetry_buffer,
                   sites, app, _telemetry_lock>>

(* the end of decide(): _record_telemetry('simulation') *)
TelRecord ==
    /\ tick = "record"
    /\ telemetry_buffer' = _record_telemetry(telemetry_buffer, "simulation",
                                             _last_sim_telemetry[1])
    /\ tick' = "sleep"
    /\ UNCHANGED <<cfg, now, pcVars, smVars, coreVars, liveVars, connected, written,
                   retried, call, snapVars, busVars, sseVars, stopVars,
                   _last_sim_telemetry, sites, app, _telemetry_lock>>

(* the sleep of the tick loop; the next tick comes after the time step or  *)
(* two seconds later                                                       *)
TelSleep ==
    /\ tick = "sleep"
    /\ \E late \in {0, 2} :
          /\ now + cfg.ems.timestep_s + late <= MaxTelTime
          /\ now' = now + cfg.ems.timestep_s + late
    /\ tick' = "decide"
    /\ UNCHANGED <<cfg, pcVars, smVars, coreVars, liveVars, connected, written, retried,
                   call, extVars>>

(* _handle_modbus_status and _handle_mqtt_telemetry: live telemetry of     *)
(* that source arrives and is recorded                                     *)
TelLive(source) ==
    /\ _live_telemetry' = TRUE
    /\ _last_telemetry' = Some(now)
    /\ telemetry_buffer' = _record_telemetry(telemetry_buffer, source, now)
    /\ UNCHANGED <<cfg, now, pcVars, smVars, coreVars, connected, tickVars, call,
                   snapVars, busVars, sseVars, stopVars, _last_sim_telemetry, sites, app, _telemetry_lock>>

TelModbus == cfg.modbus.enabled /\ TelLive("modbus")

TelMqtt == cfg.mqtt.enabled /\ TelLive("mqtt")

NextTel ==
    \/ TelDecide
    \/ TelRecord
    \/ TelSleep
    \/ TelModbus
    \/ TelMqtt

SpecTel == InitTel /\ [][NextTel]_vars

(* the buffer within its capacity, its simulation records 10 s apart *)
C30_Invariant ==
    /\ Len(telemetry_buffer) <= MaxTelemetry
    /\ \A i, j \in 1..Len(telemetry_buffer) :
           (/\ i < j
            /\ telemetry_buffer[i].telemetry_source = "simulation"
            /\ telemetry_buffer[j].telemetry_source = "simulation")
               => telemetry_buffer[j].timestamp - telemetry_buffer[i].timestamp >= 10

(* a step that records: the end of a tick that found a simulation record  *)
(* due, or a handler of live telemetry                                     *)
Records ==
    \/ tick = "record" /\ tick' = "sleep"
    \/ _last_telemetry' # _last_telemetry
    \/ telemetry_buffer' # telemetry_buffer

(* the record goes to the end; at a full buffer the oldest entry, and only *)
(* it, leaves                                                              *)
C30_Step ==
    Records =>
        /\ telemetry_buffer' # <<>>
        /\ LET record == telemetry_buffer'[Len(telemetry_buffer')]
           IN  /\ telemetry_buffer' =
                      IF Len(telemetry_buffer) < MaxTelemetry
                      THEN telemetry_buffer \o <<record>>
                      ELSE SubSeq(telemetry_buffer, 2, Len(telemetry_buffer)) \o <<record>>
               /\ record.timestamp = now
               /\ record.telemetry_source = "simulation" <=> tick' # tick

(* C30: after any sequence of Modbus, MQTT and simulation records the      *)
(* telemetry buffer holds at most its capacity of entries in the order of  *)
(* their insertion, a record arriving at a full buffer evicts exactly the  *)
(* oldest entry, and simulation records are at least 10 s apart            *)
C30_TelemetryBuffer == []C30_Invariant /\ [][C30_Step]_vars

(* a full buffer of simulation records whose first is not the first one    *)
(* made: that one was evicted                                              *)
C30_Witness ==
    /\ Len(telemetry_buffer) = MaxTelemetry
    /\ \A i \in 1..MaxTelemetry : telemetry_buffer[i].telemetry_source = "simulation"
    /\ telemetry_buffer[1].timestamp >= 10


(***************************************************************************)
(* SpecMqtt: MQTT telemetry messages one after another.  The call record   *)
(* keeps the payload and the Plant State the handler found.                *)
(***************************************************************************)

MqttConfigs == {SiteBase(TRUE, FALSE, FALSE, TRUE)}

InitMqtt ==
    /\ cfg \in MqttConfigs
    /\ now = 0
    /\ Constructed

(* payloads: every key absent or present, the first key of a pair also     *)
(* with the value 0, some values not numbers                               *)
MqttPayloads ==
    [soc : {None, Some(0), Some(60)}, sys_soc : {None, Some(40)},
     bat_p : {None, Some(0), Some(7000), Text}, sys_bat_p : {None, Some(3000)},
     sys_pv_p : {None, Some(0), Some(7000)}, sys_load_p : {None, Some(2000)},
     sys_grid_p : {None, Some(0), Text}, grid_on_p : {None, Some(3000)}]

(* the MQTT callback: _handle_mqtt_telemetry on an accepted message *)
MqttMessage ==
    /\ cfg.mqtt.enabled
    /\ call = NoCall
    /\ \E payload \in MqttPayloads :
          /\ state' = _handle_mqtt_telemetry(state, payload)
          /\ call' = [op |-> "_handle_mqtt_telemetry", payload |-> payload,
                      before |-> state]
    /\ _live_telemetry' = TRUE
    /\ _last_telemetry' = Some(now)
    /\ UNCHANGED extVars
    /\ UNCHANGED <<cfg, now, pcVars, smVars, current_plan, last_optimization,
                   connected, tickVars>>

NextMqtt == MqttMessage \/ Return

SpecMqtt == InitMqtt /\ [][NextMqtt]_vars

(* the value of the first of two keys that is present in the payload *)
FirstPresent(payload, first, second) ==
    IF payload[first] # None THEN payload[first] ELSE payload[second]

(* the field after the message: the value if it is a number, else what it  *)
(* was                                                                     *)
Mapped(value, previous) == IF Len(value) = 1 THEN value[1] ELSE previous

(* C31: an accepted MQTT message sets each field from the first listed key *)
(* that is present, for every number including 0 (soc or sys_soc -> soc,   *)
(* bat_p or sys_bat_p -> p_bess, sys_pv_p -> p_pv, sys_load_p -> p_load,   *)
(* sys_grid_p or grid_on_p -> p_grid); a field whose keys are absent or    *)
(* not numbers keeps its value; telemetry_source becomes mqtt              *)
C31_MqttMapping ==
    call.op = "_handle_mqtt_telemetry" =>
        LET payload == call.payload
            before  == call.before
        IN  /\ state.telemetry_source = "mqtt"
            /\ state.soc = Mapped(FirstPresent(payload, "soc", "sys_soc"), before.soc)
            /\ state.p_bess = Mapped(FirstPresent(payload, "bat_p", "sys_bat_p"),
                                     before.p_bess)
            /\ state.p_pv = Mapped(payload.sys_pv_p, before.p_pv)
            /\ state.p_load = Mapped(payload.sys_load_p, before.p_load)
            /\ state.p_grid = Mapped(FirstPresent(payload, "sys_grid_p", "grid_on_p"),
                                     before.p_grid)


(* the power of one peak shaving step as the rule gives it *)
C32_Power(load, soc, threshold, constr) ==
    IF load > threshold /\ soc > constr.soc_min
    THEN Min(constr.power_discharge_max_w, load - threshold)
    ELSE IF 10 * load < 7 * threshold /\ soc < constr.soc_max
    THEN -Min(constr.power_charge_max_w, threshold \div 2)
    ELSE 0

(* the running state of charge before step i: two percent down for every   *)
(* discharge, two percent up for every charge, kept within the limits      *)
RECURSIVE C32_Soc(_, _, _, _, _)
C32_Soc(load, i, soc0, threshold, constr) ==
    IF i = 1 THEN soc0
    ELSE LET soc   == C32_Soc(load, i - 1, soc0, threshold, constr)
             power == C32_Power(load[i - 1][2], soc, threshold, constr)
             moved == IF power > 0 THEN soc - 2000
                      ELSE IF power < 0 THEN soc + 2000 ELSE soc
         IN  Max(constr.soc_min, Min(constr.soc_max, moved))

(* every step of a peak shaving schedule follows the rule with the 75th    *)
(* percentile of the load as threshold                                     *)
C32_Rule ==
    (call.op = "optimize" /\ call.strategy = "peak_shaving"
        /\ call.forecast_data.load # <<>>) =>
    LET load      == call.forecast_data.load
        threshold == percentile([i \in 1..Len(load) |-> load[i][2]], 75)
    IN  /\ Len(call.result.schedule) = Len(load)
        /\ \A i \in 1..Len(load) :
              call.result.schedule[i] =
                  <<load[i][1],
                    C32_Power(load[i][2],
                              C32_Soc(load, i, call.current_soc, threshold, call.constr),
                              threshold, call.constr)>>

(* the call of the example: 10 kW with 50 kW at t = 3, 70 %, 100 kW limits *)
C32_Example ==
    /\ call.op = "optimize" /\ call.strategy = "peak_shaving"
    /\ call.forecast_data.load = PeakLoad
    /\ call.current_soc = 70000
    /\ call.constr = default_constraints

(* C32 as stated: peak shaving uses the 75th percentile of the load as     *)
(* threshold and at each step discharges min(P_d_max, load - threshold)    *)
(* above it while soc > soc_min, else charges min(P_c_max, threshold / 2)  *)
(* below 0.7 threshold while soc < soc_max, else idles; for the load       *)
(* [10, 10, 10, 50, 10, 10] kW at 70 % the threshold is 25 kW and the      *)
(* schedule discharges 25 kW at t = 3                                      *)
C32_PeakShaving ==
    /\ C32_Rule
    /\ C32_Example =>
          /\ percentile([i \in 1..6 |-> PeakLoad[i][2]], 75) = 25000
          /\ call.result.schedule[4][2] = 25000

(* C32 amended: the same rule; for the example load the 75th percentile is *)
(* 10 kW (five of the six values are 10 kW), so the schedule discharges    *)
(* 40 kW at t = 3 and idles in the other hours                             *)
C32_PeakShavingAmended ==
    /\ C32_Rule
    /\ C32_Example =>
          /\ percentile([i \in 1..6 |-> PeakLoad[i][2]], 75) = 10000
          /\ call.result.schedule[4][2] = 40000
          /\ \A i \in {1, 2, 3, 5, 6} : call.result.schedule[i][2] = 0

(* the example has been optimized, and so has a forecast whose peak finds  *)
(* the battery at its lower limit                                          *)
C32_Witness == C32_Example /\ call.result.schedule[4][2] > 0

C32_WitnessEmpty ==
    /\ call.op = "optimize" /\ call.strategy = "peak_shaving"
    /\ call.current_soc <= call.constr.soc_min
    /\ \E i \in 1..Len(call.forecast_data.load) :
          /\ call.forecast_data.load[i][2] > 20000
          /\ call.result.schedule[i][2] = 0

(***************************************************************************)
(* SpecFlow: EmsCore.get_power_flow over the telemetry of a window.        *)
(* Powers are in W and times in seconds; the energy of an interval is kept *)
(* as the sum of the two powers at its ends times its length, which is     *)
(* 7200 times the energy in Wh (0.001 kWh, the third decimal of a result). *)
(***************************************************************************)

(* EmsCore.get_recent_telemetry: the entries not older than the window; a  *)
(* limit of 0 keeps all of them                                            *)
get_recent_telemetry(buffer, minutes, limit, t) ==
    LET data == SelectSeq(buffer, LAMBDA entry : entry.timestamp >= t - 60 * minutes)
    IN  IF limit # 0 /\ Len(data) > limit
        THEN SubSeq(data, Len(data) - limit + 1, Len(data))
        ELSE data

NoFlows ==
    [pv_load |-> 0, pv_bess |-> 0, pv_grid |-> 0, bess_load |-> 0, bess_grid |-> 0,
     grid_load |-> 0, grid_bess |-> 0]

NoSummary ==
    [pv_generated |-> 0, load_consumed |-> 0, bess_charge |-> 0, bess_discharge |-> 0,
     grid_import |-> 0, grid_export |-> 0]

(* an allocation that serves the load from the battery before the PV *)
allocate_battery_first(load, pv, bess_discharge, bess_charge, grid_import) ==
    LET bess_to_load  == Min(bess_discharge, load)
        pv_to_load    == Min(pv, load - bess_to_load)
        grid_to_load  == Min(grid_import, load - bess_to_load - pv_to_load)
        pv_to_bess    == Min(pv - pv_to_load, bess_charge)
        grid_to_bess  == Min(Max(grid_import - grid_to_load, 0), bess_charge - pv_to_bess)
    IN  [pv_load |-> pv_to_load, pv_bess |-> pv_to_bess,
         pv_grid |-> Max(pv - pv_to_load - pv_to_bess, 0),
         bess_load |-> bess_to_load,
         bess_grid |-> Max(bess_discharge - bess_to_load, 0),
         grid_load |-> grid_to_load, grid_bess |-> grid_to_bess]

(* get_power_flow, the allocation of one interval: the load is served from *)
(* the PV, then the battery, then the grid; the battery is charged from    *)
(* the rest of the PV, then the grid; what is left of the PV and of the    *)
(* discharge goes to the grid                                              *)
allocate(load, pv, bess_discharge, bess_charge, grid_import) ==
    LET pv_to_load     == Min(pv, load)
        remaining_load == Max(load - pv_to_load, 0)
        bess_to_load   == Min(bess_discharge, remaining_load)
        grid_to_load   == Min(grid_import, remaining_load - bess_to_load)
        pv_surplus     == Max(pv - pv_to_load, 0)
        pv_to_bess     == Min(pv_surplus, bess_charge)
        grid_to_bess   == Min(Max(grid_import - grid_to_load, 0), bess_charge - pv_to_bess)
    IN  [pv_load |-> pv_to_load, pv_bess |-> pv_to_bess,
         pv_grid |-> Max(pv_surplus - pv_to_bess, 0),
         bess_load |-> bess_to_load,
         bess_grid |-> Max(bess_discharge - bess_to_load, 0),
         grid_load |-> grid_to_load, grid_bess |-> grid_to_bess]

(* get_power_flow, the loop over the points after prev: an interval that   *)
(* does not advance the time is skipped                                    *)
RECURSIVE flow_loop(_, _, _, _)
flow_loop(telemetry, i, prev, acc) ==
    IF i > Len(telemetry) THEN acc
    ELSE LET point == telemetry[i]
             delta == point.timestamp - prev.timestamp
             load  == Max(prev.p_load + point.p_load, 0)
             pv    == Max(prev.p_pv + point.p_pv, 0)
             bess  == prev.p_bess + point.p_bess
             grid  == prev.p_grid + point.p_grid
             kw    == allocate(load, pv, Max(bess, 0), Max(-bess, 0), Max(grid, 0))
             f     == acc.flows
             s     == acc.summary
         IN  IF delta <= 0 THEN flow_loop(telemetry, i + 1, point, acc)
             ELSE flow_loop(telemetry, i + 1, point,
                      [flows |->
                           [key \in DOMAIN f |-> f[key] + kw[key] * delta],
                       summary |->
                           [pv_generated   |-> s.pv_generated + pv * delta,
                            load_consumed  |-> s.load_consumed + load * delta,
                            bess_discharge |-> s.bess_discharge + Max(bess, 0) * delta,
                            bess_charge    |-> s.bess_charge + Max(-bess, 0) * delta,
                            grid_import    |-> s.grid_import + Max(grid, 0) * delta,
                            grid_export    |-> s.grid_export + Max(-grid, 0) * delta]])

(* EmsCore.get_power_flow: flows holds the sums of the loop; the links are *)
(* the flows above 0.0005 kWh and the summary, both rounded to Wh          *)
get_power_flow(buffer, minutes, t) ==
    LET telemetry == get_recent_telemetry(buffer, minutes, 0, t)
        acc == IF Len(telemetry) < 2 THEN [flows |-> NoFlows, summary |-> NoSummary]
               ELSE flow_loop(telemetry, 2, telemetry[1],
                              [flows |-> NoFlows, summary |-> NoSummary])
    IN  [flows |-> acc.flows,
         links |-> [key \in {k \in DOMAIN acc.flows : acc.flows[k] > 3600} |->
                       PyRound(acc.flows[key], 7200)],
         summary |-> [key \in DOMAIN acc.summary |-> PyRound(acc.summary[key], 7200)]]

(* what a telemetry entry can hold of p_pv, p_load, p_bess, p_grid: PV     *)
(* covering the load and exporting with the battery, PV and grid charging  *)
(* the battery, battery and grid serving the load, two watts of PV         *)
(* exported, a load nothing accounts for, a load from PV and battery,      *)
(* nothing at all                                                          *)
FlowPowers ==
    {<<8000, 5000, 2000, -5000>>, <<3000, 1000, -4000, 2000>>,
     <<0, 5000, 2000, 3000>>, <<2, 0, 0, -2>>, <<0, 5000, 0, 0>>,
     <<2000, 6000, 4000, 0>>, <<0, 0, 0, 0>>}

(* entries twenty minutes, one hour and two hours after the first *)
FlowTimes == {0, 1200, 3600, 7200}

FlowEntries ==
    {[timestamp |-> t, p_pv |-> p[1], p_load |-> p[2], p_bess |-> p[3], p_grid |-> p[4]] :
        t \in FlowTimes, p \in FlowPowers}

FlowBuffers == UNION {[1..n -> FlowEntries] : n \in 0..3}

InitFlow ==
    /\ cfg \in PlanConfigs
    /\ now = 0
    /\ Constructed

(* a request for the power flow of the last one or two hours, two hours    *)
(* after the first entry                                                   *)
GetPowerFlow ==
    /\ call = NoCall
    /\ \E buffer \in FlowBuffers, minutes \in {60, 120} :
          call' = [op |-> "get_power_flow", buffer |-> buffer, minutes |-> minutes,
                   result |-> get_power_flow(buffer, minutes, 7200)]
    /\ UNCHANGED <<cfg, siteVars, appVars>>

NextFlow ==
    \/ GetPowerFlow
    \/ Return

SpecFlow == InitFlow /\ [][NextFlow]_vars

(* the energy of a link in Wh, 0 for a link that is not reported *)
C33_Link(key) ==
    IF key \in DOMAIN call.result.links THEN call.result.links[key] ELSE 0

(* the sum of the powers of a kind at the two ends of interval i, and the  *)
(* length of the interval                                                  *)
C33_Power(telemetry, i, key) == telemetry[i][key] + telemetry[i + 1][key]

C33_Length(telemetry, i) == Max(telemetry[i + 1].timestamp - telemetry[i].timestamp, 0)

(* the greedy allocation of interval i in the order PV->Load,              *)
(* Battery->Load, Grid->Load, PV->Battery, Grid->Battery, PV->Grid,        *)
(* Battery->Grid                                                           *)
C33_Greedy(telemetry, i) ==
    LET pv        == Max(C33_Power(telemetry, i, "p_pv"), 0)
        load      == Max(C33_Power(telemetry, i, "p_load"), 0)
        discharge == Max(C33_Power(telemetry, i, "p_bess"), 0)
        charge    == Max(-C33_Power(telemetry, i, "p_bess"), 0)
        import    == Max(C33_Power(telemetry, i, "p_grid"), 0)
        pv_load   == Min(pv, load)
        bess_load == Min(discharge, load - pv_load)
        grid_load == Min(import, load - pv_load - bess_load)
        pv_bess   == Min(pv - pv_load, charge)
        grid_bess == Min(import - grid_load, charge - pv_bess)
    IN  [pv_load |-> pv_load, bess_load |-> bess_load, grid_load |-> grid_load,
         pv_bess |-> pv_bess, grid_bess |-> grid_bess,
         pv_grid |-> pv - pv_load - pv_bess,
         bess_grid |-> discharge - bess_load,
         pv |-> pv, discharge |-> discharge]

(* the energy of a kind over the intervals from i on *)
RECURSIVE C33_Energy(_, _, _)
C33_Energy(telemetry, i, key) ==
    IF i >= Len(telemetry) THEN 0
    ELSE C33_Greedy(telemetry, i)[key] * C33_Length(telemetry, i)
         + C33_Energy(telemetry, i + 1, key)

(* the window holds the example: 8 kW of PV, 5 kW of load, 2 kW of         *)
(* discharge and 5 kW of export, constant over one hour                    *)
C33_Example ==
    /\ call.op = "get_power_flow"
    /\ LET telemetry == get_recent_telemetry(call.buffer, call.minutes, 0, 7200)
       IN  /\ Len(telemetry) = 2
           /\ telemetry[2].timestamp - telemetry[1].timestamp = 3600
           /\ \A i \in 1..2 : <<telemetry[i].p_pv, telemetry[i].p_load,
                                 telemetry[i].p_bess, telemetry[i].p_grid>>
                               = <<8000, 5000, 2000, -5000>>

(* C33: every flow is the sum over the intervals of the window of the      *)
(* greedy allocation in the order PV->Load, Battery->Load, Grid->Load,     *)
(* PV->Battery, Grid->Battery, PV->Grid, Battery->Grid of the averaged     *)
(* powers; the flows out of the PV add up to the PV energy and the flows   *)
(* out of the battery to its discharge energy (exactly for the sums, and   *)
(* within the rounding of four values to Wh for the reported ones); 8 kW   *)
(* of PV, 5 kW of load, 2 kW of discharge and 5 kW of export over one hour *)
(* give PV->Load 5 kWh, PV->Grid 3 kWh, Battery->Grid 2 kWh only           *)
C33_PowerFlow ==
    call.op = "get_power_flow" =>
    LET telemetry == get_recent_telemetry(call.buffer, call.minutes, 0, 7200)
        f == call.result.flows
    IN  /\ \A key \in DOMAIN f : f[key] = C33_Energy(telemetry, 1, key)
        /\ f.pv_load + f.pv_bess + f.pv_grid = C33_Energy(telemetry, 1, "pv")
        /\ f.bess_load + f.bess_grid = C33_Energy(telemetry, 1, "discharge")
        /\ Abs(C33_Link("pv_load") + C33_Link("pv_bess") + C33_Link("pv_grid")
               - call.result.summary.pv_generated) <= 2
        /\ Abs(C33_Link("bess_load") + C33_Link("bess_grid")
               - call.result.summary.bess_discharge) <= 2
        /\ C33_Example =>
               call.result.links =
                   [key \in {"pv_load", "pv_grid", "bess_grid"} |->
                       CASE key = "pv_load" -> 5000
                         [] key = "pv_grid" -> 3000
                         [] key = "bess_grid" -> 2000]

(* the example of C33 has been computed *)
C33_Witness == C33_Example /\ C33_Link("pv_load") = 5000

(* a window of two intervals in which a flow below a Wh is not reported *)
C33_WitnessRounding ==
    /\ call.op = "get_power_flow"
    /\ Len(get_recent_telemetry(call.buffer, call.minutes, 0, 7200)) = 3
    /\ call.result.flows.pv_grid > 0
    /\ "pv_grid" \notin DOMAIN call.result.links

(* C34: a pass of the poller whose status holds no register value leaves   *)
(* the time of the last live sample and telemetry_source as they were      *)
C34_FailedPoll ==
    [][(/\ poller.at = "handle" /\ poller'.at = "sleep"
        /\ RegisterValues(poller.status[1]) = {})
       => /\ _last_telemetry' = _last_telemetry
          /\ _live_telemetry' = _live_telemetry
          /\ state'.telemetry_source = state.telemetry_source]_vars

(* what the poller does: the status without a register value has been      *)
(* handled as a live sample                                                *)
C34_Handled ==
    /\ poller.at = "sleep"
    /\ poller.status = Some(NoValues)
    /\ state.telemetry_source = "modbus"
    /\ _last_telemetry = Some(now)

(***************************************************************************)
(* SpecSig: the signals of the power control over the life of a site.  The *)
(* tick thread, the MQTT callback and the poller run as in Spec; the       *)
(* status the handler was last called with and the last one that was not   *)
(* empty are kept in `call`.                                               *)
(***************************************************************************)

(* a site with Modbus and MQTT and no command writes, with either signal   *)
(* map                                                                     *)
SigConfigs ==
    {[SiteBase(TRUE, FALSE, TRUE, TRUE) EXCEPT !.power_control.signals = s] :
        s \in {SignalsPlain, SignalsClamped}}

(* a status word 3 (bit 0 set, not equal to 1), a trip with an alarm and a *)
(* limit above 100 %, a status word 2 with a limit, a status without the   *)
(* DSO registers, one without any register, and the empty status          *)
SigSamples ==
    {[dso_status |-> 3, alarm_word |-> 0, soc_percent |-> 42],
     [dso_status |-> 1, alarm_word |-> 2, dso_limit |-> 150],
     [dso_status |-> 2, alarm_word |-> 0, dso_limit |-> 50],
     [alarm_word |-> 1, soc_percent |-> 42],
     NoValues,
     <<>>}

InitSig ==
    /\ cfg \in SigConfigs
    /\ now = 0
    /\ Constructed

(* _handle_modbus_status called with a status: an empty one returns at     *)
(* once                                                                    *)
SigStatus ==
    /\ cfg.modbus.enabled
    /\ connected
    /\ \E status \in SigSamples :
          LET signals == ingest_status(signal_state, cfg.power_control.signals, status)
              previous == IF call = NoCall THEN None ELSE call.sample
          IN  /\ call' = [op |-> "_handle_modbus_status", status |-> Some(status),
                          sample |-> IF DOMAIN status = {} THEN previous
                                     ELSE Some(status)]
              /\ IF DOMAIN status = {}
                 THEN UNCHANGED <<signal_state, state, liveVars>>
                 ELSE /\ signal_state' = signals
                      /\ state' = _handle_modbus_status(state, status, signals)
                      /\ _live_telemetry' = TRUE
                      /\ _last_telemetry' = Some(now)
    /\ UNCHANGED extVars
    /\ UNCHANGED <<cfg, now, control_decision, smVars, current_plan, last_optimization,
                   connected, tickVars>>

NextSig ==
    \/ Decide
    \/ ApplyCommands
    \/ Broadcast
    \/ Sleep
    \/ ModbusConnect
    \/ SigStatus
    \/ MqttTelemetry

SpecSig == InitSig /\ [][NextSig]_vars

(* a bool signal of a sample: false when the signal is not configured or   *)
(* its register is absent, else the mask test if a mask is configured,     *)
(* else the equals test, else non-zero                                     *)
C35_Bool(c, sample) ==
    /\ c # None
    /\ c[1].register \in DOMAIN sample
    /\ LET value == sample[c[1].register]
       IN  IF c[1].mask # None THEN (value \div c[1].mask[1]) % 2 = 1
           ELSE IF c[1].equals # None THEN value = c[1].equals[1]
           ELSE value # 0

(* the limit of a sample: unset when its register is absent, else the      *)
(* value within the configured bounds                                      *)
C35_Limit(c, sample) ==
    IF c = None \/ c[1].register \notin DOMAIN sample THEN None
    ELSE LET value == sample[c[1].register]
             low   == IF c[1].min_pct # None /\ value < c[1].min_pct[1]
                      THEN c[1].min_pct[1] ELSE value
         IN  Some(IF c[1].max_pct # None /\ low > c[1].max_pct[1]
                  THEN c[1].max_pct[1] ELSE low)

(* the most recent status that was not empty, if any *)
C35_Sample == IF call = NoCall THEN None ELSE call.sample

(* the signals of the most recent status that was not empty; none yet: no  *)
(* trip, no alarm, no limit                                                *)
C35_Signals ==
    LET signals == cfg.power_control.signals
    IN  [dso_trip |-> C35_Sample # None /\ C35_Bool(signals.dso_trip, C35_Sample[1]),
         safety_alarm |->
             C35_Sample # None /\ C35_Bool(signals.safety_alarm, C35_Sample[1]),
         dso_limit_pct |-> IF C35_Sample = None THEN None
                           ELSE C35_Limit(signals.dso_limit_pct, C35_Sample[1])]

(* the decision of a tick is taken from these signals: shutdown for        *)
(* dso_trip if the trip is set, else for safety_alarm if the alarm is set, *)
(* else the limit of the sample                                            *)
C35_Tick ==
    (tick = "decide" /\ tick' = "apply") =>
        /\ control_decision'[1].shutdown
               = (C35_Signals.dso_trip \/ C35_Signals.safety_alarm)
        /\ C35_Signals.dso_trip => control_decision'[1].reason = "dso_trip"
        /\ (~C35_Signals.dso_trip /\ C35_Signals.safety_alarm)
               => control_decision'[1].reason = "safety_alarm"
        /\ (~C35_Signals.dso_trip /\ ~C35_Signals.safety_alarm)
               => control_decision'[1].dso_limit_pct = C35_Signals.dso_limit_pct

(* C35: in every state the signals of the power control are those          *)
(* extracted from the most recent Modbus status that was not empty,        *)
(* whatever ticks, MQTT messages, empty statuses and the change to         *)
(* simulation happened since, and the decision of every tick is taken from *)
(* them                                                                    *)
C35_SignalsFromLastSample == [](signal_state = C35_Signals) /\ [][C35_Tick]_vars

(* a trip seen once is in force in the decision of a tick after an MQTT    *)
(* message, an empty status and the change to simulation                   *)
C35_Witness ==
    /\ call # NoCall
    /\ call.status = Some(<<>>)
    /\ call.sample = Some([dso_status |-> 3, alarm_word |-> 0, soc_percent |-> 42])
    /\ state.telemetry_source = "simulation"
    /\ state.p_pv = 8000
    /\ now > 0
    /\ control_decision # None
    /\ control_decision[1].reason = "dso_trip"

(***************************************************************************)
(* SpecCyc: the optimization cycle of the tick thread, step by step, and   *)
(* set_manual_strategy on a request thread.  Neither takes a lock, so a    *)
(* request can fall between any two steps of a cycle:                      *)
(*   decide -> select -> store -> sleep -> decide                          *)
(* `call` keeps the name the cycle in progress selected, and for the       *)
(* properties: how far the ticks are since the last request returned true  *)
(* (returned, ticking: a tick began after it, ticked: that tick has ended  *)
(* without raising), the number of successful cycles, the time of the last *)
(* one and whether a request came since.                                   *)
(***************************************************************************)

CycConfigs == {SiteBase(TRUE, FALSE, FALSE, FALSE)}

NoCycle ==
    [op |-> "cycle", strategy_name |-> None, pin |-> "none", last_success |-> None,
     pinned |-> FALSE, successes |-> 0]

(* what `call` keeps, nothing of it before the first step *)
Cyc == IF call = NoCall THEN NoCycle ELSE call

InitCyc ==
    /\ cfg \in CycConfigs
    /\ now = 0
    /\ Constructed

(* the pin at the end of a tick *)
tick_ended(pin) == IF pin = "ticking" THEN "ticked" ELSE pin

(* decide(): _needs_optimization; without a due cycle the tick goes on to  *)
(* the setpoint, which touches none of the cycle's fields                  *)
CycDecide ==
    /\ tick = "decide"
    /\ LET due == _needs_optimization(now, last_optimization,
                                      cfg.ems.optimization_interval_minutes)
           began == IF Cyc.pin = "returned" THEN "ticking" ELSE Cyc.pin
       IN  /\ tick' = IF due THEN "select" ELSE "sleep"
           /\ call' = [Cyc EXCEPT !.pin = IF due THEN began ELSE tick_ended(began)]
    /\ UNCHANGED extVars
    /\ UNCHANGED <<cfg, now, pcVars, smVars, coreVars, liveVars, connected, written,
                   retried>>

(* _run_optimization to the assignment of active_strategy: the forecast is *)
(* fetched, which may raise, and select_strategy called                    *)
CycSelect ==
    /\ tick = "select"
    /\ \E forecast \in BOOLEAN, scores \in SiteScores :
          IF ~forecast
          THEN /\ state' = [state EXCEPT !.optimization_status = "failed"]
               /\ tick' = "sleep"
               /\ call' = [Cyc EXCEPT !.pin = IF @ = "ticking" THEN "returned" ELSE @]
               /\ UNCHANGED current_strategy_name
          ELSE LET sel == select_strategy(SM, cfg.strategies.switch_threshold, scores,
                                          None)
               IN  /\ state' = [state EXCEPT !.active_strategy = sel.returned]
                   /\ current_strategy_name' = sel.current_strategy_name
                   /\ tick' = "store"
                   /\ call' = [Cyc EXCEPT !.strategy_name = Some(sel.returned)]
    /\ UNCHANGED extVars
    /\ UNCHANGED <<cfg, now, pcVars, selection_mode, manual_strategy, current_plan,
                   last_optimization, liveVars, connected, written, retried>>

(* _run_optimization from optimize_with_strategy on: the plan is stored    *)
(* and last_optimization set to the time it is then                        *)
CycStore ==
    /\ tick = "store"
    /\ \E optimized \in {None, Some(SiteSchedule)}, took \in 0..1 :
          /\ current_plan' =
                 Some(optimize_with_strategy(Cyc.strategy_name[1], optimized))
          /\ now' = now + took
          /\ last_optimization' = Some(now')
          /\ state' = [state EXCEPT !.optimization_status = "success"]
          /\ call' = [Cyc EXCEPT !.strategy_name = None, !.pin = tick_ended(@),
                                  !.last_success = Some(now'), !.pinned = FALSE,
                                  !.successes = @ + 1]
    /\ tick' = "sleep"
    /\ UNCHANGED extVars
    /\ UNCHANGED <<cfg, pcVars, smVars, liveVars, connected, written, retried>>

(* time.sleep(dt) of the tick loop *)
CycSleep ==
    /\ tick = "sleep"
    /\ now < MaxTicks * cfg.ems.timestep_s
    /\ now' = now + cfg.ems.timestep_s
    /\ tick' = "decide"
    /\ UNCHANGED extVars
    /\ UNCHANGED <<cfg, pcVars, smVars, coreVars, liveVars, connected, written, retried,
                   call>>

(* EmsCore.set_manual_strategy on a request thread *)
CycSetManual ==
    /\ \E strategy_name \in {"self_consumption", "peak_shaving", "unknown"} :
          LET r == set_manual_strategy(SM, strategy_name)
          IN  /\ selection_mode' = r.sm.selection_mode
              /\ manual_strategy' = r.sm.manual_strategy
              /\ current_strategy_name' = r.sm.current_strategy_name
              /\ last_optimization' = IF r.ok THEN None ELSE last_optimization
              /\ call' = IF r.ok THEN [Cyc EXCEPT !.pin = "returned", !.pinned = TRUE]
                         ELSE Cyc
    /\ UNCHANGED extVars
    /\ UNCHANGED <<cfg, now, pcVars, state, current_plan, liveVars, connected, tickVars>>

NextCyc ==
    \/ CycDecide
    \/ CycSelect
    \/ CycStore
    \/ CycSleep
    \/ CycSetManual

SpecCyc == InitCyc /\ [][NextCyc]_vars

(* C36: once the first tick that began after set_manual_strategy(S)        *)
(* returned true has ended (the first whose cycle did not raise),          *)
(* active_strategy is S, wherever in the tick thread's cycle the request   *)
(* fell                                                                    *)
C36_ManualTakesEffect ==
    Cyc.pin = "ticked" => state.active_strategy = manual_strategy

(* what happens: a request that fell between the selection and the end of  *)
(* a cycle; the cycle stored its time over the request's reset, the next   *)
(* tick found no cycle due and ended with the strategy selected before     *)
C36_Lost ==
    /\ Cyc.pin = "ticked"
    /\ tick = "sleep"
    /\ selection_mode = "manual"
    /\ state.active_strategy # manual_strategy
    /\ last_optimization # None

(* a cycle has ended without raising *)
C37_Success == tick = "store" /\ tick' = "sleep"

(* a cycle has raised *)
C37_Failure == tick = "select" /\ tick' = "sleep"

C37_Step ==
    /\ (last_optimization' # last_optimization /\ last_optimization' # None)
           => C37_Success /\ state'.optimization_status = "success"
    /\ C37_Failure => /\ last_optimization' = last_optimization
                      /\ state'.optimization_status = "failed"
    /\ (C37_Success /\ Cyc.last_success # None /\ ~Cyc.pinned)
           => now' - Cyc.last_success[1] >= 60 * cfg.ems.optimization_interval_minutes

(* C37: last_optimization is advanced only by a cycle that ends without    *)
(* raising; a tick that follows a failed cycle finds a cycle due; two      *)
(* successful cycles without a set_manual_strategy between them are at     *)
(* least optimization_interval_minutes apart                               *)
C37_LastOptimization ==
    /\ []((tick = "decide" /\ state.optimization_status = "failed")
             => _needs_optimization(now, last_optimization,
                                    cfg.ems.optimization_interval_minutes))
    /\ [][C37_Step]_vars

(* a second successful cycle, with no request ever, after a first one *)
C37_Witness ==
    /\ tick = "sleep"
    /\ Cyc.successes = 2
    /\ ~Cyc.pinned /\ Cyc.pin = "none"
    /\ last_optimization = Cyc.last_success

(* a cycle is run again at the tick after a failed one *)
C37_WitnessRetry ==
    /\ tick = "select"
    /\ now > 0
    /\ state.optimization_status = "failed"

(***************************************************************************)
(* SpecLock: the locks of a site and the threads that take them: the tick  *)
(* loop, the Modbus poller, the MQTT callback, a request for the telemetry *)
(* history, and stop().  `pending` holds the position of every thread.  A  *)
(* position names what the thread does next: take a lock (it waits until   *)
(* the lock is free), leave a with block, or go on without either.         *)
(***************************************************************************)

Threads == {"tick", "poller", "mqtt", "api", "stop"}

(* _state_lock, _telemetry_lock and the Modbus client's _lock *)
Locks == {"state", "telemetry", "modbus"}

LockStepOf(acquire, release, next) == [acquire |-> acquire, release |-> release, next |-> next]

(* Mutant: the buffer is appended to inside the block of the state lock. *)
record_step_nested(at, after) ==
    CASE at = "snapshot_wait" -> LockStepOf("state", "none", {"snapshot"})
      [] at = "snapshot"      -> LockStepOf("telemetry", "none", {"append_wait"})
      [] at = "append_wait"   -> LockStepOf("none", "telemetry", {"append"})
      [] at = "append"        -> LockStepOf("none", "state", {after})

(* _record_telemetry and what follows it: the snapshot is taken under the  *)
(* state lock, the lock left, and the buffer appended to under the         *)
(* telemetry lock                                                          *)
record_step(at, after) ==
    CASE at = "snapshot_wait" -> LockStepOf("state", "none", {"snapshot"})
      [] at = "snapshot"      -> LockStepOf("none", "state", {"append_wait"})
      [] at = "append_wait"   -> LockStepOf("telemetry", "none", {"append"})
      [] at = "append"        -> LockStepOf("none", "telemetry", {after})

(* the step a thread takes at a position:                                  *)
(*   tick: decide() under the state lock, apply_commands with one write    *)
(*     after the other under the client's lock, _record_telemetry when a   *)
(*     simulation record is due, sleep;                                    *)
(*   poller: connect() and every register read under the client's lock,    *)
(*     the handler under the state lock, _record_telemetry, sleep; after   *)
(*     an exception disconnect() under the client's lock;                  *)
(*   mqtt: the handler under the state lock, _record_telemetry;            *)
(*   api: get_recent_telemetry under the telemetry lock;                   *)
(*   stop: disconnect() under the client's lock                            *)
thread_step(thread, at) ==
    IF at \in {"snapshot_wait", "snapshot", "append_wait", "append"}
    THEN record_step(at, IF thread = "mqtt" THEN "idle" ELSE "sleep")
    ELSE CASE thread = "tick" ->
             (CASE at = "decide"  -> LockStepOf("state", "none", {"locked"})
                [] at = "locked"  -> LockStepOf("none", "state", {"apply"})
                [] at = "apply"   -> LockStepOf("none", "none", {"write", "record"})
                [] at = "write"   -> LockStepOf("modbus", "none", {"writing"})
                [] at = "writing" -> LockStepOf("none", "modbus", {"write", "record"})
                [] at = "record"  -> LockStepOf("none", "none", {"snapshot_wait", "sleep"})
                [] at = "sleep"   -> LockStepOf("none", "none", {"decide"}))
           [] thread = "poller" ->
             (CASE at = "head"       -> LockStepOf("none", "none", {"connect", "read"})
                [] at = "connect"    -> LockStepOf("modbus", "none", {"connecting"})
                [] at = "connecting" -> LockStepOf("none", "modbus", {"head", "sleep"})
                [] at = "read"       -> LockStepOf("modbus", "none", {"reading"})
                [] at = "reading"    ->
                       LockStepOf("none", "modbus", {"read", "handle", "sleep", "error"})
                [] at = "handle"     -> LockStepOf("state", "none", {"handling"})
                [] at = "handling"   -> LockStepOf("none", "state", {"snapshot_wait"})
                [] at = "error"      -> LockStepOf("modbus", "none", {"closing"})
                [] at = "closing"    -> LockStepOf("none", "modbus", {"sleep"})
                [] at = "sleep"      -> LockStepOf("none", "none", {"head"}))
           [] thread = "mqtt" ->
             (CASE at = "idle"     -> LockStepOf("none", "none", {"handle"})
                [] at = "handle"   -> LockStepOf("state", "none", {"handling"})
                [] at = "handling" -> LockStepOf("none", "state", {"snapshot_wait"}))
           [] thread = "api" ->
             (CASE at = "idle"       -> LockStepOf("none", "none", {"query_wait"})
                [] at = "query_wait" -> LockStepOf("telemetry", "none", {"query"})
                [] at = "query"      -> LockStepOf("none", "telemetry", {"idle"}))
           [] thread = "stop" ->
             (CASE at = "idle"    -> LockStepOf("none", "none", {"close", "stopped"})
                [] at = "close"   -> LockStepOf("modbus", "none", {"closing"})
                [] at = "closing" -> LockStepOf("none", "modbus", {"stopped"})
                [] at = "stopped" -> LockStepOf("none", "none", {}))

(* the thread that holds a lock, or "none" *)
Holder(lock) ==
    CASE lock = "state" -> _state_lock
      [] lock = "telemetry" -> _telemetry_lock
      [] lock = "modbus" -> _lock

InitLock ==
    /\ cfg \in {SiteBase(TRUE, TRUE, TRUE, TRUE)}
    /\ now = 0
    /\ signal_state = SignalState
    /\ control_decision = None
    /\ selection_mode = cfg.strategies.selection_mode
    /\ manual_strategy = cfg.strategies.manual_strategy
    /\ current_strategy_name = None
    /\ state = PlantState
    /\ current_plan = None
    /\ last_optimization = None
    /\ _live_telemetry = FALSE
    /\ _last_telemetry = None
    /\ connected = FALSE
    /\ tick = "decide"
    /\ written = <<>>
    /\ retried = FALSE
    /\ call = NoCall
    /\ _state_lock = "none"
    /\ pending = [t \in Threads |->
                     CASE t = "tick" -> "decide" [] t = "poller" -> "head"
                       [] OTHER -> "idle"]
    /\ reader = NoRead
    /\ _lock = "none"
    /\ inflight = {}
    /\ poller = PollerIdle
    /\ _listeners = <<>>
    /\ queues = [s \in Subscribers |-> <<>>]
    /\ delivered = [s \in Subscribers |-> NotSubscribed]
    /\ _stop = FALSE
    /\ mqtt_client = "idle"
    /\ stopper = "idle"
    /\ telemetry_buffer = <<>>
    /\ _last_sim_telemetry = None
    /\ _telemetry_lock = "none"
    /\ sites = {}
    /\ app = NoApp

(* a thread takes its step: it enters a with block only when the lock is   *)
(* free                                                                    *)
LockStep(thread) ==
    LET step == thread_step(thread, pending[thread])
        held(lock) == IF step.acquire = lock THEN thread
                      ELSE IF step.release = lock THEN "none"
                      ELSE Holder(lock)
    IN  /\ step.acquire # "none" => lock_free(Holder(step.acquire))
        /\ \E next \in step.next : pending' = [pending EXCEPT ![thread] = next]
        /\ _state_lock' = held("state")
        /\ _telemetry_lock' = held("telemetry")
        /\ _lock' = held("modbus")
        /\ UNCHANGED <<cfg, now, pcVars, smVars, coreVars, liveVars, connected, tickVars,
                       call, reader, inflight, poller, sseVars, stopVars,
                       telemetry_buffer, _last_sim_telemetry, sites, app>>

LockTick == LockStep("tick")

LockPoller == LockStep("poller")

LockMqtt == LockStep("mqtt")

LockApi == LockStep("api")

LockStop == LockStep("stop")

NextLock ==
    \/ LockTick
    \/ LockPoller
    \/ LockMqtt
    \/ LockApi
    \/ LockStop

SpecLock == InitLock /\ [][NextLock]_vars

(* the thread is about to take a lock *)
C38_Waits(thread) == thread_step(thread, pending[thread]).acquire # "none"

(* C38: a thread that is about to take one of the three locks of the site  *)
(* holds none of them; so whoever holds a lock another thread waits for is *)
(* not waiting itself and will leave its block: no interleaving of ticks,  *)
(* polls, MQTT messages, telemetry queries and stop() deadlocks            *)
C38_NoWaitWhileHolding ==
    /\ \A thread \in Threads :
          C38_Waits(thread) => \A lock \in Locks : Holder(lock) # thread
    /\ \A lock \in Locks :
          Holder(lock) # "none" =>
              /\ ~C38_Waits(Holder(lock))
              /\ thread_step(Holder(lock), pending[Holder(lock)]).release = lock
    /\ \E thread \in Threads \ {"stop"} :
          LET step == thread_step(thread, pending[thread])
          IN  step.acquire # "none" => Holder(step.acquire) = "none"

(* every lock is held by a different thread and two more threads wait *)
C38_Witness ==
    /\ _state_lock = "mqtt"
    /\ _telemetry_lock = "api"
    /\ _lock = "stop"
    /\ pending["tick"] = "decide"
    /\ pending["poller"] = "read"


(***************************************************************************)
(* SpecRec: what _record_telemetry appends.  The handlers of the poller    *)
(* and of the MQTT callback change the Plant State under the state lock,   *)
(* leave the lock, and call _record_telemetry, which takes the state lock  *)
(* again for its snapshot and the telemetry lock for the append; decide()  *)
(* does the same for a simulation record.  A block under the state lock is *)
(* one step.  Here the Plant State carries its timestamp, and `pending`    *)
(* holds for every source the position of its thread:                      *)
(*   idle -> (handler) -> record -> (snapshot) -> append -> idle           *)
(* with the snapshot of the Plant State as the handler left it (applied)   *)
(* and the one _record_telemetry took.                                     *)
(***************************************************************************)

Sources == {"simulation", "modbus", "mqtt"}

(* the fields of the Plant State that _record_telemetry copies *)
SnapshotFields ==
    {"timestamp", "soc", "p_bess", "p_grid", "p_load", "p_pv", "setpoint_kw",
     "dso_trip", "safety_alarm", "dso_limit_pct", "active_power_limit_w",
     "power_limit_reason", "remote_shutdown_requested"}

(* the dict _record_telemetry builds under the state lock *)
snapshot_of(st, source) ==
    [f \in SnapshotFields \cup {"telemetry_source"} |->
        IF f = "telemetry_source" THEN source ELSE st[f]]

(* live samples a source delivers *)
MaxSamples == 2

Recording(at, applied, snapshot, samples) == [at |-> at, applied |-> applied, snapshot |-> snapshot, samples |-> samples]

NotRecording == Recording("idle", None, None, 0)

(* the Plant State of a new site, with its timestamp *)
TimedPlantState ==
    [f \in DOMAIN PlantState \cup {"timestamp"} |->
        IF f = "timestamp" THEN 0 ELSE PlantState[f]]

RecConfigs == {[SiteBase(TRUE, FALSE, TRUE, TRUE) EXCEPT !.ems.timestep_s = 7]}

RecStatusSamples ==
    {[dso_status |-> 0, alarm_word |-> 0, soc_percent |-> 42, power_kw |-> 10000],
     [dso_status |-> 1, alarm_word |-> 0, soc_percent |-> 43, power_kw |-> 0]}

InitRec ==
    /\ cfg \in RecConfigs
    /\ now = 0
    /\ signal_state = SignalState
    /\ control_decision = None
    /\ selection_mode = cfg.strategies.selection_mode
    /\ manual_strategy = cfg.strategies.manual_strategy
    /\ current_strategy_name = None
    /\ state = TimedPlantState
    /\ current_plan = None
    /\ last_optimization = None
    /\ _live_telemetry = FALSE
    /\ _last_telemetry = None
    /\ connected = TRUE
    /\ tick = "decide"
    /\ written = <<>>
    /\ retried = FALSE
    /\ call = NoCall
    /\ _state_lock = "none"
    /\ pending = [source \in Sources |-> NotRecording]
    /\ reader = NoRead
    /\ _lock = "none"
    /\ inflight = {}
    /\ poller = PollerIdle
    /\ _listeners = <<>>
    /\ queues = [s \in Subscribers |-> <<>>]
    /\ delivered = [s \in Subscribers |-> NotSubscribed]
    /\ _stop = FALSE
    /\ mqtt_client = "idle"
    /\ stopper = "idle"
    /\ telemetry_buffer = <<>>
    /\ _last_sim_telemetry = None
    /\ _telemetry_lock = "none"
    /\ sites = {}
    /\ app = NoApp

(* a handler has left the state lock and is about to call                  *)
(* _record_telemetry                                                       *)
Applied(st, source) ==
    Recording("record", Some(snapshot_of(st, source)), None, pending[source].samples + 1)

(* decide() under the state lock: the staleness check, the decision, the   *)
(* simulated reaction and the timestamp; a simulation record is due        *)
(* without live telemetry when none was made in the last 10 s              *)
RecDecide ==
    /\ tick = "decide"
    /\ LET stale == telemetry_stale(_live_telemetry, _last_telemetry, now)
           live == _live_telemetry /\ ~stale
           decision == compute_decision(cfg.power_control, signal_state,
                                        _get_setpoint_from_plan(current_plan, now),
                                        cfg.constraints)
           decided == [apply_decision(
                          IF stale THEN [state EXCEPT !.telemetry_source = "simulation"]
                          ELSE state, decision, live)
                       EXCEPT !.timestamp = now]
           due == record_simulation(live, _last_sim_telemetry, now)
       IN  /\ _live_telemetry' = live
           /\ state' = decided
           /\ _last_sim_telemetry' = IF due THEN Some(now) ELSE _last_sim_telemetry
           /\ pending' = IF due
                         THEN [pending EXCEPT !["simulation"] =
                                  Recording("record", Some(snapshot_of(decided, "simulation")),
                                            None, 0)]
                         ELSE pending
    /\ tick' = "sleep"
    /\ UNCHANGED <<cfg, now, pcVars, smVars, current_plan, last_optimization,
                   _last_telemetry, connected, written, retried, call, _state_lock,
                   reader, busVars, sseVars, stopVars, telemetry_buffer, _telemetry_lock,
                   sites, app>>

(* the sleep of the tick loop, after decide() has returned *)
RecSleep ==
    /\ tick = "sleep"
    /\ pending["simulation"].at = "idle"
    /\ now < MaxTicks * cfg.ems.timestep_s
    /\ now' = now + cfg.ems.timestep_s
    /\ tick' = "decide"
    /\ UNCHANGED <<cfg, pcVars, smVars, coreVars, liveVars, connected, written, retried,
                   call, extVars>>

(* _handle_modbus_status up to the release of the state lock *)
RecModbus ==
    /\ pending["modbus"].at = "idle"
    /\ pending["modbus"].samples < MaxSamples
    /\ \E status \in RecStatusSamples :
          LET signals == ingest_status(signal_state, cfg.power_control.signals, status)
              handled == [_handle_modbus_status(state, status, signals)
                          EXCEPT !.timestamp = now]
          IN  /\ signal_state' = signals
              /\ state' = handled
              /\ pending' = [pending EXCEPT !["modbus"] = Applied(handled, "modbus")]
    /\ _live_telemetry' = TRUE
    /\ _last_telemetry' = Some(now)
    /\ UNCHANGED <<cfg, now, control_decision, smVars, current_plan, last_optimization,
                   connected, tickVars, call, _state_lock, reader, busVars, sseVars,
                   stopVars, appVars>>

(* _handle_mqtt_telemetry up to the release of the state lock *)
RecMqtt ==
    /\ pending["mqtt"].at = "idle"
    /\ pending["mqtt"].samples < MaxSamples
    /\ \E payload \in MqttSamples :
          LET handled == [_handle_mqtt_telemetry(state, payload) EXCEPT !.timestamp = now]
          IN  /\ state' = handled
              /\ pending' = [pending EXCEPT !["mqtt"] = Applied(handled, "mqtt")]
    /\ _live_telemetry' = TRUE
    /\ _last_telemetry' = Some(now)
    /\ UNCHANGED <<cfg, now, pcVars, smVars, current_plan, last_optimization,
                   connected, tickVars, call, _state_lock, reader, busVars, sseVars,
                   stopVars, appVars>>

(* _record_telemetry: the snapshot under the state lock *)
RecSnapshot ==
    /\ \E source \in Sources :
          /\ pending[source].at = "record"
          /\ pending' = [pending EXCEPT ![source].at = "append",
                                        ![source].snapshot = Some(snapshot_of(state, source))]
    /\ UNCHANGED <<cfg, now, pcVars, smVars, coreVars, liveVars, connected, tickVars,
                   call, _state_lock, reader, busVars, sseVars, stopVars, appVars>>

(* _record_telemetry: the append under the telemetry lock *)
RecAppend ==
    /\ \E source \in Sources :
          /\ pending[source].at = "append"
          /\ telemetry_buffer' = deque_append(telemetry_buffer, pending[source].snapshot[1],
                                              MaxTelemetry)
          /\ pending' = [pending EXCEPT ![source].at = "idle",
                                        ![source].applied = None,
                                        ![source].snapshot = None]
    /\ UNCHANGED <<cfg, now, pcVars, smVars, coreVars, liveVars, connected, tickVars,
                   call, _state_lock, reader, busVars, sseVars, stopVars,
                   _last_sim_telemetry, _telemetry_lock, sites, app>>

NextRec ==
    \/ RecDecide
    \/ RecSleep
    \/ RecModbus
    \/ RecMqtt
    \/ RecSnapshot
    \/ RecAppend

SpecRec == InitRec /\ [][NextRec]_vars

(* _record_telemetry of a live source appends *)
C39_Appends(source) ==
    pending[source].at = "append" /\ pending'[source].at = "idle"

(* C39: the entry appended for a live sample holds the fields and the      *)
(* timestamp of the Plant State as the handler of that sample left them,   *)
(* whatever ticks and samples of the other source come in between          *)
C39_EntryAsApplied ==
    [][\A source \in {"modbus", "mqtt"} :
          C39_Appends(source) =>
              telemetry_buffer'[Len(telemetry_buffer')] = pending[source].applied[1]]_vars

(* an entry of an MQTT sample is appended that holds what a later Modbus   *)
(* sample left in the Plant State                                          *)
C39_Overtaken ==
    /\ pending["mqtt"].at = "append"
    /\ pending["mqtt"].applied[1].soc = 60
    /\ pending["mqtt"].snapshot[1].soc \in {42, 43}


(***************************************************************************)
(* SpecRun: start() and stop() called one after the other, in any order,   *)
(* while the tick loops they started run.  `pending` holds the position of *)
(* every tick-loop thread start() has created, in the order of creation;   *)
(* the last one is the thread _thr refers to.  `stopper` is the position   *)
(* of the caller, `call` the outcome of the last start().                  *)
(*   loop:  check -> decide -> broadcast -> sleep -> check, ended once     *)
(*          _stop is found set at check                                    *)
(***************************************************************************)

(* threads start() creates *)
MaxStarts == 3

(* Thread.is_alive of the i-th tick-loop thread *)
is_alive(threads, i) == threads[i] # "ended"

(* Mutant: start() does not look at the thread it started before. *)
start_needed_always(threads) == TRUE

(* start(): whether it goes on, that is, _thr is None or not alive *)
start_needed(threads) == threads = <<>> \/ ~is_alive(threads, Len(threads))

(* _loop: the step after a position *)
loop_step(at, stop) ==
    CASE at = "check" -> (IF stop THEN "ended" ELSE "decide")
      [] at = "decide" -> "broadcast"
      [] at = "broadcast" -> "sleep"
      [] at = "sleep" -> "check"

(* what a step of this part leaves alone *)
runRest == <<cfg, now, pcVars, smVars, coreVars, liveVars, connected, tickVars,
             _state_lock, reader, busVars, sseVars, appVars>>

InitRun ==
    /\ cfg \in StopConfigs
    /\ now = 0
    /\ signal_state = SignalState
    /\ control_decision = None
    /\ selection_mode = cfg.strategies.selection_mode
    /\ manual_strategy = cfg.strategies.manual_strategy
    /\ current_strategy_name = None
    /\ state = PlantState
    /\ current_plan = None
    /\ last_optimization = None
    /\ _live_telemetry = FALSE
    /\ _last_telemetry = None
    /\ connected = FALSE
    /\ tick = "idle"
    /\ written = <<>>
    /\ retried = FALSE
    /\ call = NoCall
    /\ _state_lock = "none"
    /\ pending = <<>>
    /\ reader = NoRead
    /\ _lock = "none"
    /\ inflight = {}
    /\ poller = PollerIdle
    /\ _listeners = <<>>
    /\ queues = [s \in Subscribers |-> <<>>]
    /\ delivered = [s \in Subscribers |-> NotSubscribed]
    /\ _stop = FALSE
    /\ mqtt_client = "idle"
    /\ stopper = "idle"
    /\ telemetry_buffer = <<>>
    /\ _last_sim_telemetry = None
    /\ _telemetry_lock = "none"
    /\ sites = {}
    /\ app = NoApp

(* start(): the test of _thr; with a loop alive it returns *)
RunStartCheck ==
    /\ stopper = "idle"
    /\ ~start_needed(pending) \/ Len(pending) < MaxStarts
    /\ stopper' = IF start_needed(pending) THEN "clear" ELSE "idle"
    /\ call' = [op |-> "start", started |-> start_needed(pending), stop |-> _stop]
    /\ UNCHANGED <<runRest, pending, _stop, mqtt_client>>

(* start(): _stop.clear() *)
RunStartClear ==
    /\ stopper = "clear"
    /\ _stop' = FALSE
    /\ stopper' = "spawn"
    /\ UNCHANGED <<runRest, pending, call, mqtt_client>>

(* start(): the new thread, and the MQTT connection *)
RunStartSpawn ==
    /\ stopper = "spawn"
    /\ pending' = Append(pending, "check")
    /\ \E ok \in BOOLEAN :
          mqtt_client' = IF cfg.mqtt.enabled /\ ok THEN "connecting" ELSE mqtt_client
    /\ stopper' = "idle"
    /\ UNCHANGED <<runRest, call, _stop>>

(* stop(): _stop.set() *)
RunStopSet ==
    /\ stopper = "idle"
    /\ _stop' = TRUE
    /\ stopper' = "disconnect"
    /\ UNCHANGED <<runRest, pending, call, mqtt_client>>

(* stop(): the clients are disconnected; the tick-loop thread is not       *)
(* joined                                                                  *)
RunStopDisconnect ==
    /\ stopper = "disconnect"
    /\ mqtt_client' = IF cfg.mqtt.enabled THEN mqtt_disconnect(mqtt_client)
                      ELSE mqtt_client
    /\ stopper' = "idle"
    /\ UNCHANGED <<runRest, pending, call, _stop>>

(* a step of a tick-loop thread *)
RunLoop ==
    /\ \E i \in 1..Len(pending) :
          /\ is_alive(pending, i)
          /\ pending' = [pending EXCEPT ![i] = loop_step(pending[i], _stop)]
    /\ UNCHANGED <<runRest, call, stopVars>>

NextRun ==
    \/ RunStartCheck
    \/ RunStartClear
    \/ RunStartSpawn
    \/ RunStopSet
    \/ RunStopDisconnect
    \/ RunLoop

SpecRun == InitRun /\ [][NextRun]_vars

(* the tick-loop threads that are alive *)
C40_Alive == {i \in 1..Len(pending) : is_alive(pending, i)}

(* C40: whatever start() and stop() calls are made one after the other, at *)
(* most one tick-loop thread is alive, and a start() that finds the loop   *)
(* alive returns at once: no thread is created, a stop request that is set *)
(* stays set, and the MQTT client is not connected again                   *)
C40_OneLoop ==
    /\ [](Cardinality(C40_Alive) <= 1)
    /\ [][stopper = "idle" /\ call' # call =>
             IF C40_Alive # {}
             THEN /\ stopper' = "idle"
                  /\ UNCHANGED <<pending, _stop, mqtt_client>>
                  /\ ~call'.started
             ELSE stopper' = "clear" /\ call'.started]_vars

(* start() has returned at once although stop() had been called: the loop  *)
(* of the second start() has not yet seen the request                      *)
C40_Witness ==
    /\ call # NoCall
    /\ ~call.started
    /\ call.stop
    /\ _stop
    /\ stopper = "idle"
    /\ Len(pending) = 2
    /\ pending[1] = "ended"
    /\ is_alive(pending, 2)

====
